---- MODULE Spec2Model ----
(***************************************************************************)
(* Context Routing Engine and Schema Migration Sequencer of robin-mcp.      *)
(*                                                                         *)
(* The persisted store (tables sources, contexts, source_rules of db.ts)   *)
(* is one record-valued variable; every SQL statement the handlers issue   *)
(* is an operator on it, with SQLite's UNIQUE / PRIMARY KEY checks.        *)
(*                                                                         *)
(* Abstractions: the AUTOINCREMENT rowid of source_rules is not stored; a  *)
(* rule is identified by (context, source_id), which UNIQUE(context,       *)
(* source_id) makes a key, so "WHERE id = ?" and "WHERE context = ? AND    *)
(* source_id = ?" select the same row.  The columns name, tools and        *)
(* resources of sources are not stored.  Non-ASCII punctuation in seeded   *)
(* texts is written in ASCII; texts are only compared for equality.        *)
(***************************************************************************)
EXTENDS Integers, Sequences, FiniteSets, TLC

VARIABLES
  db,       \* the SQLite store: [schema, sources, contexts, source_rules]
  last,     \* the last request and its response
  release,  \* which release's code has opened the store: "none", "old", "new"
  edits,    \* number of user requests served since the store file was created
  handle,   \* db.ts "let db" of the running process: "unset", or assigned
            \* with initSchema having returned ("complete") or thrown
            \* ("incomplete")
  reg       \* the AdapterRegistry of the process, its adapters, the
            \* adapter_health table and the last server createServer built;
            \* in the specifications of http.ts and linear/oauth.ts, the
            \* maps and the token row these modules keep

vars == <<db, last, release, edits, handle, reg>>

----------------------------------------------------------------------------
(* Bounds *)

\* longest sourceIds list a reorder request carries
MaxLen == 3

\* user requests served in the migration specification
MaxEdits == 3

----------------------------------------------------------------------------
(* Rows *)

S(id, description) == [id |-> id, description |-> description]

C(name, description) == [name |-> name, description |-> description]

R(context, source_id, priority, reason) ==
  [context |-> context, source_id |-> source_id,
   priority |-> priority, reason |-> reason]

Range(s) == {s[i] : i \in DOMAIN s}

\* JavaScript's default Array.prototype.sort order (UTF-16 code units) on
\* the source ids of the model, smallest first
IdsInSortOrder ==
  << "digest", "ext-gdocs-work", "ext-linear", "ext-notion-work", "gdocs",
     "gdocs-personal", "gdocs-work", "github", "kb-bookmarks", "kb-notes",
     "linear", "nosuch", "notion", "notion-work", "tom-cannon-research",
     "vault", "writings", "writings-static-drift" >>

IdRank(id) == CHOOSE i \in DOMAIN IdsInSortOrder : IdsInSortOrder[i] = id

\* [...ids].sort(): insertion of each element into an already sorted prefix
RECURSIVE SortInsert(_, _)
SortInsert(x, sorted) ==
  IF sorted = <<>> THEN <<x>>
  ELSE IF IdRank(x) <= IdRank(Head(sorted)) THEN <<x>> \o sorted
       ELSE <<Head(sorted)>> \o SortInsert(x, Tail(sorted))

RECURSIVE SortIds(_)
SortIds(ids) ==
  IF ids = <<>> THEN <<>> ELSE SortInsert(Head(ids), SortIds(Tail(ids)))

----------------------------------------------------------------------------
(* SQL on the store.  An outcome is [db, err, log]: the store, whether a   *)
(* statement threw, and the source_rules table after every UPDATE of a     *)
(* priority that was executed.                                             *)

Ok(d) == [db |-> d, err |-> FALSE, log |-> <<>>]

EmptyDb == [schema |-> "none", sources |-> {}, contexts |-> {}, source_rules |-> {}]

SourceIds(d) == {s.id : s \in d.sources}

ContextNames(d) == {c.name : c \in d.contexts}

\* SELECT ... FROM source_rules WHERE context = ?
RulesOf(d, context) == {r \in d.source_rules : r.context = context}

\* SELECT ... WHERE context = ? AND source_id = ?
RuleAt(d, context, source_id) ==
  {r \in d.source_rules : r.context = context /\ r.source_id = source_id}

Priorities(d, context) == {r.priority : r \in RulesOf(d, context)}

\* UNIQUE(context, priority) holds of a table
UniquePriorities(rules) ==
  \A r1, r2 \in rules :
    (r1.context = r2.context /\ r1.priority = r2.priority) => r1 = r2

\* UNIQUE(context, source_id) holds of a table
UniqueSources(rules) ==
  \A r1, r2 \in rules :
    (r1.context = r2.context /\ r1.source_id = r2.source_id) => r1 = r2

\* ORDER BY priority: every row order SQLite may return.  Rows of equal
\* priority (possible only before UNIQUE(context, priority) exists) come in
\* an order SQL leaves open.
RECURSIVE OrderByPriority(_)
OrderByPriority(rs) ==
  IF rs = {} THEN {<<>>}
  ELSE LET m == CHOOSE p \in {r.priority : r \in rs} :
                  \A r \in rs : p <= r.priority
       IN UNION {{<<r>> \o t : t \in OrderByPriority(rs \ {r})} :
                 r \in {x \in rs : x.priority = m}}

\* mutant: MAX(priority) over the whole table, the WHERE clause forgotten
MaxPriorityGlobal(d, context) ==
  IF d.source_rules = {} THEN 0
  ELSE CHOOSE p \in {r.priority : r \in d.source_rules} :
         \A r \in d.source_rules : r.priority <= p

\* SELECT COALESCE(MAX(priority), 0) FROM source_rules WHERE context = ?
MaxPriority(d, context) ==
  IF RulesOf(d, context) = {} THEN 0
  ELSE CHOOSE p \in Priorities(d, context) :
         \A q \in Priorities(d, context) : q <= p

\* UPDATE source_rules SET priority = ? WHERE <key of one row>
UpdatePriority(o, context, source_id, p) ==
  LET hit     == RuleAt(o.db, context, source_id)
      others  == o.db.source_rules \ hit
      clash   == o.db.schema = "current" /\ hit # {} /\
                 \E r \in others : r.context = context /\ r.priority = p
      table   == others \cup {[r EXCEPT !.priority = p] : r \in hit}
  IN IF o.err THEN o
     ELSE IF clash THEN [o EXCEPT !.err = TRUE]
     ELSE [o EXCEPT !.db.source_rules = table, !.log = Append(o.log, table)]

\* UPDATE source_rules SET reason = ? WHERE <key of one row>
UpdateReason(o, context, source_id, reason) ==
  IF o.err THEN o
  ELSE [o EXCEPT !.db.source_rules =
          {IF r.context = context /\ r.source_id = source_id
             THEN [r EXCEPT !.reason = reason] ELSE r : r \in o.db.source_rules}]

\* the constraints an INSERT INTO source_rules may violate
RuleConflict(d, r) ==
  \/ RuleAt(d, r.context, r.source_id) # {}
  \/ d.schema = "current" /\ r.priority \in Priorities(d, r.context)

\* source_id REFERENCES sources(id), with PRAGMA foreign_keys = ON
RuleForeignKeyFails(d, r) == r.source_id \notin SourceIds(d)

\* INSERT INTO source_rules (context, source_id, priority, reason)
InsertRule(o, r) ==
  IF o.err THEN o
  ELSE IF RuleConflict(o.db, r) \/ RuleForeignKeyFails(o.db, r)
       THEN [o EXCEPT !.err = TRUE]
  ELSE [o EXCEPT !.db.source_rules = @ \cup {r}]

\* INSERT OR IGNORE INTO source_rules: a uniqueness conflict skips the row,
\* a foreign key failure still throws
InsertOrIgnoreRule(o, r) ==
  IF o.err THEN o
  ELSE IF RuleConflict(o.db, r) THEN o
  ELSE IF RuleForeignKeyFails(o.db, r) THEN [o EXCEPT !.err = TRUE]
  ELSE [o EXCEPT !.db.source_rules = @ \cup {r}]

\* INSERT OR IGNORE INTO sources
InsertOrIgnoreSource(o, s) ==
  IF o.err \/ s.id \in SourceIds(o.db) THEN o
  ELSE [o EXCEPT !.db.sources = @ \cup {s}]

\* INSERT OR IGNORE INTO contexts
InsertOrIgnoreContext(o, c) ==
  IF o.err \/ c.name \in ContextNames(o.db) THEN o
  ELSE [o EXCEPT !.db.contexts = @ \cup {c}]

\* DELETE FROM source_rules WHERE source_id = ?
DeleteRulesOfSource(o, source_id) ==
  IF o.err THEN o
  ELSE [o EXCEPT !.db.source_rules = {r \in @ : r.source_id # source_id}]

\* DELETE FROM sources WHERE id = ?  (ON DELETE CASCADE removes its rules)
DeleteSource(o, source_id) ==
  IF o.err THEN o
  ELSE [o EXCEPT !.db.sources = {s \in @ : s.id # source_id},
                 !.db.source_rules = {r \in @ : r.source_id # source_id}]

\* db.transaction(body)(): a throw inside rolls the store back and rethrows
Txn(before, after) ==
  IF after.err THEN [after EXCEPT !.db = before.db] ELSE after

\* run a list of <<context, source_id, priority>> UPDATEs in order
RECURSIVE RunUpdates(_, _)
RunUpdates(o, ups) ==
  IF ups = <<>> THEN o
  ELSE RunUpdates(UpdatePriority(o, Head(ups)[1], Head(ups)[2], Head(ups)[3]),
                  Tail(ups))

\* sequencing of steps that may have several outcomes
Then(outcomes, step(_)) ==
  UNION {IF o.err THEN {o} ELSE step(o) : o \in outcomes}

----------------------------------------------------------------------------
(* db.ts: compactPriorities *)

\* mutant: the renumbering starts at 0, as if update.run(i, rule.id)
CompactUpdatesZeroBased(ord) ==
  [i \in 1..Len(ord) |-> <<ord[i].context, ord[i].source_id, i - 1>>]

\* rules.forEach((rule, i) => update.run(i + 1, rule.id)) for one row order
CompactUpdates(ord) ==
  [i \in 1..Len(ord) |-> <<ord[i].context, ord[i].source_id, i>>]

\* mutant: the compaction is left out
compactPrioritiesSkipped(o, context) == {o}

compactPriorities(o, context) ==
  IF o.err THEN {o}
  ELSE {Txn(o, RunUpdates(o, CompactUpdates(ord))) :
          ord \in OrderByPriority(RulesOf(o.db, context))}

----------------------------------------------------------------------------
(* Requests and responses *)

\* the requests the modelled clients send: a rule is set or deleted for one
\* of these (context, source id) pairs; "nosuch" has no row in sources and
\* "marketing" is a context no seed knows
OpSources == {"github", "kb-notes", "kb-bookmarks", "nosuch"}

OpTargets ==
  ({"general"} \X OpSources) \cup ({"marketing"} \X {"github", "nosuch"})

ReorderContexts == {"general"}

ReorderSources == {"github", "kb-notes", "kb-bookmarks"}

ReadContexts == {"code", "general", "marketing"}

OpReasons == {"check for docs"}

Access == {"full", "readonly"}

\* every sourceIds array of at most MaxLen entries
IdLists == UNION {[1..n -> ReorderSources] : n \in 0..MaxLen}

\* op .. reason: the request; status, rows, kind: the response; pre: the
\* store when the request arrived; log: the source_rules table after each
\* priority UPDATE the request ran; emptied: <<context, source id>> when the
\* request before this one was a DELETE that removed the last rule of its
\* context, <<>> otherwise
NoRequest ==
  [op |-> "none", access |-> "full", context |-> "", sourceId |-> "",
   sourceIds |-> <<>>, reason |-> "", status |-> "", pre |-> EmptyDb,
   log |-> <<>>, rows |-> <<>>, kind |-> "", emptied |-> <<>>]

Emptied ==
  IF last.op = "DELETE /api/routing" /\ last.status = "200" /\
     RulesOf(db, last.context) = {}
    THEN <<last.context, last.sourceId>>
    ELSE <<>>

\* a response sent before the handler read any request field from the store
Refused(op, access, status) ==
  [NoRequest EXCEPT !.op = op, !.access = access, !.status = status, !.pre = db,
                    !.emptied = Emptied]

Served(op, context, sourceId, sourceIds, reason, status, log) ==
  [NoRequest EXCEPT !.op = op, !.context = context, !.sourceId = sourceId,
                    !.sourceIds = sourceIds, !.reason = reason,
                    !.status = status, !.pre = db, !.log = log,
                    !.emptied = Emptied]

----------------------------------------------------------------------------
(* tools/sources.ts set-source-rule and dashboard PUT /api/routing *)

\* mutant: an existing rule is moved to the end when its reason is updated
UpsertRuleReappend(d, context, sourceId, reason) ==
  IF RuleAt(d, context, sourceId) # {}
    THEN UpdatePriority(UpdateReason(Ok(d), context, sourceId, reason),
                        context, sourceId, MaxPriority(d, context) + 1)
    ELSE InsertOrIgnoreContext(
           InsertRule(Ok(d), R(context, sourceId, MaxPriority(d, context) + 1, reason)),
           C(context, ""))

\* the store after the upsert of both handlers, once the source is known
UpsertRule(d, context, sourceId, reason) ==
  IF RuleAt(d, context, sourceId) # {}
    THEN UpdateReason(Ok(d), context, sourceId, reason)
    ELSE InsertOrIgnoreContext(
           InsertRule(Ok(d), R(context, sourceId, MaxPriority(d, context) + 1, reason)),
           C(context, ""))

\* mutant: the context record is created before the source is looked up
SetSourceRuleContextFirst(context, sourceId, reason) ==
  /\ release = "new"
  /\ LET withContext == InsertOrIgnoreContext(Ok(db), C(context, "")).db
     IN IF sourceId \notin SourceIds(db)
          THEN /\ db' = withContext
               /\ last' = Served("set-source-rule", context, sourceId, <<>>, reason,
                                 "isError", <<>>)
          ELSE LET o == UpsertRule(withContext, context, sourceId, reason)
               IN /\ db' = o.db
                  /\ last' = Served("set-source-rule", context, sourceId, <<>>,
                                    reason, IF o.err THEN "isError" ELSE "ok", o.log)

SetSourceRule(context, sourceId, reason) ==
  /\ release = "new"
  /\ IF sourceId \notin SourceIds(db)
       THEN /\ db' = db
            /\ last' = Served("set-source-rule", context, sourceId, <<>>, reason,
                              "isError", <<>>)
       ELSE LET o == UpsertRule(db, context, sourceId, reason)
            IN /\ db' = o.db
               /\ last' = Served("set-source-rule", context, sourceId, <<>>, reason,
                                 IF o.err THEN "isError" ELSE "ok", o.log)

PutRouting(access, context, sourceId, reason) ==
  /\ release = "new"
  /\ IF access # "full"
       THEN db' = db /\ last' = Refused("PUT /api/routing", access, "403")
     ELSE IF context = "" \/ sourceId = "" \/ reason = ""
       THEN db' = db /\ last' = Refused("PUT /api/routing", access, "400")
     ELSE IF sourceId \notin SourceIds(db)
       THEN /\ db' = db
            /\ last' = Served("PUT /api/routing", context, sourceId, <<>>, reason,
                              "404", <<>>)
     ELSE LET o == UpsertRule(db, context, sourceId, reason)
          IN /\ db' = o.db
             /\ last' = Served("PUT /api/routing", context, sourceId, <<>>, reason,
                               IF o.err THEN "500" ELSE "200", o.log)

----------------------------------------------------------------------------
(* dashboard DELETE /api/routing *)

\* DELETE FROM source_rules WHERE context = ? AND source_id = ?
DeleteRule(o, context, sourceId) ==
  [o EXCEPT !.db.source_rules = @ \ RuleAt(o.db, context, sourceId)]

DeleteRouting(access, context, sourceId) ==
  /\ release = "new"
  /\ IF access # "full"
       THEN db' = db /\ last' = Refused("DELETE /api/routing", access, "403")
     ELSE IF context = "" \/ sourceId = ""
       THEN db' = db /\ last' = Refused("DELETE /api/routing", access, "400")
     ELSE IF RuleAt(db, context, sourceId) = {}
       THEN /\ db' = db
            /\ last' = Served("DELETE /api/routing", context, sourceId, <<>>, "",
                              "404", <<>>)
     ELSE \E o \in compactPriorities(DeleteRule(Ok(db), context, sourceId), context) :
            /\ db' = o.db
            /\ last' = Served("DELETE /api/routing", context, sourceId, <<>>, "",
                              IF o.err THEN "500" ELSE "200", o.log)

----------------------------------------------------------------------------
(* dashboard POST /api/routing/reorder *)

\* existingRules.map(r => r.source_id) for one row order
SourceIdsOf(ord) == [i \in 1..Len(ord) |-> ord[i].source_id]

\* new Set(sourceIds).size === sourceIds.length
NoDuplicates(ids) == Cardinality(Range(ids)) = Len(ids)

\* mutant: the lists are compared by length only
ReorderValidByLength(ord, sourceIds) ==
  /\ Len(ord) = Len(sourceIds)
  /\ NoDuplicates(sourceIds)

\* the two checks of the handler, on the rows in the order the SELECT gave
ReorderValid(ord, sourceIds) ==
  /\ SortIds(SourceIdsOf(ord)) = SortIds(sourceIds)
  /\ NoDuplicates(sourceIds)

\* mutant: the final priorities are written in place, without step 1
ReorderUpdatesInPlace(context, sourceIds) ==
  [i \in 1..Len(sourceIds) |-> <<context, sourceIds[i], i>>]

\* mutant: step 2 writes the array index i instead of i + 1
ReorderUpdatesZeroBased(context, sourceIds) ==
  [i \in 1..Len(sourceIds) |-> <<context, sourceIds[i], -i>>] \o
  [i \in 1..Len(sourceIds) |-> <<context, sourceIds[i], i - 1>>]

\* step 1 (negative temporaries) followed by step 2 (final 1..N)
ReorderUpdates(context, sourceIds) ==
  [i \in 1..Len(sourceIds) |-> <<context, sourceIds[i], -i>>] \o
  [i \in 1..Len(sourceIds) |-> <<context, sourceIds[i], i>>]

ReorderTxn(d, context, sourceIds) ==
  Txn(Ok(d), RunUpdates(Ok(d), ReorderUpdates(context, sourceIds)))

ReorderRouting(access, context, sourceIds) ==
  /\ release = "new"
  /\ IF access # "full"
       THEN db' = db /\ last' = Refused("POST /api/routing/reorder", access, "403")
     ELSE IF context = "" \/ sourceIds = <<>>
       THEN db' = db /\ last' = Refused("POST /api/routing/reorder", access, "400")
     ELSE \E ord \in OrderByPriority(RulesOf(db, context)) :
            IF ~ReorderValid(ord, sourceIds)
              THEN /\ db' = db
                   /\ last' = Served("POST /api/routing/reorder", context, "",
                                     sourceIds, "", "400", <<>>)
              ELSE LET o == ReorderTxn(db, context, sourceIds)
                   IN /\ db' = o.db
                      /\ last' = Served("POST /api/routing/reorder", context, "",
                                        sourceIds, "", IF o.err THEN "500" ELSE "200",
                                        o.log)

----------------------------------------------------------------------------
(* dashboard PUT /api/contexts/:name *)

\* the :name of the requests: a seeded context and one that has no record
ContextParams == {"code", "journal"}

\* the request bodies: with and without the field description
ContextBodies ==
  {[has |-> FALSE, description |-> ""],
   [has |-> TRUE, description |-> "Engineering work"]}

\* INSERT INTO contexts ... ON CONFLICT(name) DO UPDATE SET description = ?
UpsertContext(o, name, description) ==
  IF o.err THEN o
  ELSE [o EXCEPT !.db.contexts = {c \in @ : c.name # name} \cup {C(name, description)}]

\* mutant: the handler without its check of the access level
PutContextOpen(access, name, body) ==
  /\ release = "new"
  /\ IF ~body.has
       THEN db' = db /\ last' = Refused("PUT /api/contexts/:name", access, "400")
     ELSE LET o == UpsertContext(Ok(db), name, body.description)
          IN /\ db' = o.db
             /\ last' = [Served("PUT /api/contexts/:name", name, "", <<>>,
                                body.description, "200", <<>>)
                           EXCEPT !.access = access]

PutContext(access, name, body) ==
  /\ release = "new"
  /\ IF access # "full"
       THEN db' = db /\ last' = Refused("PUT /api/contexts/:name", access, "403")
     ELSE IF ~body.has
       THEN db' = db /\ last' = Refused("PUT /api/contexts/:name", access, "400")
     ELSE LET o == UpsertContext(Ok(db), name, body.description)
          IN /\ db' = o.db
             /\ last' = [Served("PUT /api/contexts/:name", name, "", <<>>,
                                body.description, "200", <<>>)
                           EXCEPT !.access = access]

----------------------------------------------------------------------------
(* tools/sources.ts get-source-routing and dashboard POST /api/routing/preview *)

\* mutant: the rules of general are always added to the answer
RoutingRowsMixed(d, context) ==
  OrderByPriority({r \in RulesOf(d, context) \cup RulesOf(d, "general") :
                     r.source_id \in SourceIds(d)})

\* SELECT sr.* ... FROM source_rules sr JOIN sources s ON s.id = sr.source_id
\* WHERE sr.context = ? ORDER BY sr.priority: every row order it may return
RoutingRows(d, context) ==
  OrderByPriority({r \in RulesOf(d, context) : r.source_id \in SourceIds(d)})

GetSourceRouting(context) ==
  /\ release = "new"
  /\ \E rules \in RoutingRows(db, context), general \in RoutingRows(db, "general") :
       last' = [Served("get-source-routing", context, "", <<>>, "", "ok", <<>>)
                  EXCEPT !.rows = IF rules # <<>> THEN rules ELSE general,
                         !.kind = IF rules # <<>> THEN "exact"
                                  ELSE IF general # <<>> THEN "fallback"
                                  ELSE "none"]
  /\ UNCHANGED db

PreviewRouting(context) ==
  /\ release = "new"
  /\ IF context = ""
       THEN last' = Refused("POST /api/routing/preview", "full", "400")
       ELSE \E rules \in RoutingRows(db, context), general \in RoutingRows(db, "general") :
              LET rows == IF rules # <<>> THEN rules ELSE general
              IN last' = [Served("POST /api/routing/preview", context, "", <<>>, "",
                                 "200", <<>>)
                            EXCEPT !.rows = rows,
                                   !.kind = IF rows # <<>> /\ rows[1].context # context
                                              THEN "fallback"
                                            ELSE IF rows # <<>> THEN "exact"
                                            ELSE "none"]
  /\ UNCHANGED db

----------------------------------------------------------------------------
(* db.ts: seeds *)

PPS == "product-and-project-strategy"

NewPpsDescription ==
  "Product strategy, roadmaps, and project tracking - use external tools (Linear, work Notion) if available"

NewWritingsDescription ==
  "robin-cannon.com (Substack) - website, blog posts, LinkedIn profile, and writing sections (Shiny Toy Robots, Alternate Frequencies)"

RECURSIVE InsertOrIgnoreSources(_, _)
InsertOrIgnoreSources(o, rows) ==
  IF rows = <<>> THEN o
  ELSE InsertOrIgnoreSources(InsertOrIgnoreSource(o, Head(rows)), Tail(rows))

RECURSIVE InsertOrIgnoreRules(_, _)
InsertOrIgnoreRules(o, rows) ==
  IF rows = <<>> THEN o
  ELSE InsertOrIgnoreRules(InsertOrIgnoreRule(o, Head(rows)), Tail(rows))

RECURSIVE InsertOrIgnoreContexts(_, _)
InsertOrIgnoreContexts(o, rows) ==
  IF rows = <<>> THEN o
  ELSE InsertOrIgnoreContexts(InsertOrIgnoreContext(o, Head(rows)), Tail(rows))

SeedSources ==
  << S("kb-notes", "Personal notes with full-text search"),
     S("kb-bookmarks", "Saved URLs and references"),
     S("writings", NewWritingsDescription),
     S("github", "GitHub repo search and API access"),
     S("vault", "StaticDrift fiction universe - private creative writing repo") >>

SeedRules ==
  << R("code", "github", 1,
       "GitHub is the primary source for code, repos, and open-source references"),
     R("code", "kb-bookmarks", 2,
       "Bookmarks may contain saved technical references"),
     R("code", "kb-notes", 3,
       "Notes may contain code snippets or technical decisions"),
     R(PPS, "kb-notes", 1,
       "Notes may contain meeting notes or project context"),
     R("creative-writing", "vault", 1,
       "The creative vault is the primary source for fiction and creative work"),
     R("creative-writing", "writings", 2,
       "Shiny Toy Robots and Alternate Frequencies sections contain published creative writing"),
     R("creative-writing", "kb-notes", 3,
       "Notes may contain story ideas or writing drafts"),
     R("static-drift", "vault", 1,
       "The StaticDrift folder in the creative vault is the canonical source for the Static Drift universe"),
     R("static-drift", "writings", 2,
       "Shiny Toy Robots and Alternate Frequencies may contain related creative pieces"),
     R("static-drift", "kb-notes", 3,
       "Notes may contain world-building ideas or story planning"),
     R("personal-brand", "writings", 1,
       "Website and blog are the canonical public presence"),
     R("personal-brand", "kb-bookmarks", 2,
       "Bookmarks may track published content or press"),
     R("research", "kb-notes", 1,
       "Notes are the primary place to store research findings"),
     R("research", "kb-bookmarks", 2,
       "Bookmarks save reference material"),
     R("research", "github", 3,
       "GitHub repos can be research references"),
     R("general", "kb-notes", 1,
       "Notes are the most versatile knowledge store"),
     R("general", "kb-bookmarks", 2,
       "Bookmarks provide quick references") >>

seedDefaultSources(o) ==
  IF o.db.sources # {} THEN o
  ELSE Txn(o, InsertOrIgnoreRules(InsertOrIgnoreSources(o, SeedSources), SeedRules))

SeedContexts ==
  << C("code",
       "Context for writing, reviewing, or analyzing application code and engineering topics"),
     C(PPS, NewPpsDescription),
     C("creative-writing",
       "Fiction writing, story development, and creative composition"),
     C("static-drift",
       "The Static Drift speculative fiction universe - worldbuilding, stories, and lore"),
     C("personal-brand",
       "Public web presence, published writing, and professional profile"),
     C("research",
       "Research notes, references, and information gathering"),
     C("general",
       "Catch-all context for general knowledge queries and tasks") >>

seedDefaultContexts(o) ==
  IF o.db.contexts # {} THEN o
  ELSE Txn(o, InsertOrIgnoreContexts(o, SeedContexts))

----------------------------------------------------------------------------
(* db.ts: migrations *)

\* SELECT DISTINCT context FROM source_rules [WHERE source_id = ?]
ContextsOf(rules) == {r.context : r \in rules}

\* for (const { context } of contexts) compactPriorities(db, context)
RECURSIVE CompactEach(_, _)
CompactEach(outcomes, contexts) ==
  IF contexts = {} THEN outcomes
  ELSE LET c == CHOOSE x \in contexts : TRUE
       IN CompactEach(Then(outcomes, LAMBDA o : compactPriorities(o, c)),
                      contexts \ {c})

\* whether the stored CREATE TABLE text includes "UNIQUE(context, priority)"
HasPriorityConstraint(d) == d.schema = "current"

\* CREATE TABLE source_rules_new (... UNIQUE(context, priority)); INSERT INTO
\* source_rules_new SELECT ...; DROP; RENAME
RebuildWithConstraint(o) ==
  IF o.err THEN o
  ELSE IF ~UniquePriorities(o.db.source_rules) THEN [o EXCEPT !.err = TRUE]
  ELSE [o EXCEPT !.db.schema = "current"]

\* mutant: the table is rebuilt without compacting first
migrateSourceRulesConstraintUncompacted(o) ==
  IF HasPriorityConstraint(o.db) THEN {o}
  ELSE {Txn(o, RebuildWithConstraint(o))}

migrateSourceRulesConstraint(o) ==
  IF HasPriorityConstraint(o.db) THEN {o}
  ELSE {Txn(o, RebuildWithConstraint(c)) :
          c \in CompactEach({o}, ContextsOf(o.db.source_rules))}

\* the body of the loop "for (const { id } of existing)" of the two
\* stale-source migrations, and of the loop over the old work sources in V3
RemoveSource(o, id) ==
  LET contexts == ContextsOf({r \in o.db.source_rules : r.source_id = id})
  IN CompactEach({DeleteSource(DeleteRulesOfSource(o, id), id)}, contexts)

RECURSIVE RemoveSources(_, _)
RemoveSources(outcomes, ids) ==
  IF ids = <<>> THEN outcomes
  ELSE RemoveSources(Then(outcomes, LAMBDA o : RemoveSource(o, Head(ids))), Tail(ids))

\* the ids of a list that have a row in sources
Existing(d, ids) == SelectSeq(ids, LAMBDA id : id \in SourceIds(d))

migrateRemoveStaleSourcesV1(o) ==
  LET existing == Existing(o.db, <<"writings-static-drift", "tom-cannon-research">>)
  IN IF existing = <<>> THEN {o}
     ELSE {Txn(o, r) : r \in RemoveSources({o}, existing)}

migrateWritingsDescriptionV1(o) ==
  IF \A s \in o.db.sources : s.id = "writings" => s.description = NewWritingsDescription
    THEN o
    ELSE [o EXCEPT !.db.sources =
            {IF s.id = "writings" THEN S(s.id, NewWritingsDescription) ELSE s : s \in @}]

\* UPDATE source_rules SET context = <to> WHERE context = <from>
RenameRuleContext(o, from, to) ==
  LET table == {IF r.context = from THEN [r EXCEPT !.context = to] ELSE r :
                  r \in o.db.source_rules}
      moved == RulesOf(o.db, from)
      clash == \E r \in moved, k \in RulesOf(o.db, to) :
                 \/ r.source_id = k.source_id
                 \/ o.db.schema = "current" /\ r.priority = k.priority
  IN IF o.err THEN o
     ELSE IF clash THEN [o EXCEPT !.err = TRUE]
     ELSE [o EXCEPT !.db.source_rules = table]

\* DELETE FROM contexts WHERE name = ?
DeleteContext(o, name) ==
  IF o.err THEN o ELSE [o EXCEPT !.db.contexts = {c \in @ : c.name # name}]

migrateRenameProjectManagementContextV1(o) ==
  IF "project-management" \notin ContextNames(o.db) THEN o
  ELSE Txn(o, DeleteContext(
                RenameRuleContext(
                  InsertOrIgnoreContext(o, C(PPS, NewPpsDescription)),
                  "project-management", PPS),
                "project-management"))

StalePpsDescriptions ==
  {"Product strategy, vision documents, roadmaps, and project tracking via Notion and Google Docs",
   "Product strategy, vision documents, roadmaps, and project tracking via Linear, Notion, and Google Docs"}

migrateProductStrategyDescriptionV2(o) ==
  IF \A c \in o.db.contexts : c.name = PPS => c.description \notin StalePpsDescriptions
    THEN o
    ELSE [o EXCEPT !.db.contexts =
            {IF c.name = PPS THEN C(c.name, NewPpsDescription) ELSE c : c \in @}]

WorkSources == <<"linear", "notion-work", "gdocs-work">>

\* mutant: the list of stale ids names a source that V3 seeds
migrateRemoveWorkSourcesV2Ext(o) ==
  LET existing == Existing(o.db, <<"linear", "notion-work", "ext-gdocs-work">>)
  IN IF existing = <<>> THEN {o}
     ELSE {Txn(o, r) : r \in RemoveSources({o}, existing)}

migrateRemoveWorkSourcesV2(o) ==
  LET existing == Existing(o.db, WorkSources)
  IN IF existing = <<>> THEN {o}
     ELSE {Txn(o, r) : r \in RemoveSources({o}, existing)}

ExtSources ==
  << S("ext-linear", "Issues, sprints, and project tracking via separate MCP server"),
     S("ext-notion-work", "Work Notion workspace - project docs, specs, and team knowledge"),
     S("ext-gdocs-work", "Work Google Workspace - meeting notes and project docs") >>

\* the (context, source, reason) triples of the external hints; V3 inserts
\* them at priorities 100.., V4 rewrites their reasons
ExtReasons ==
  << <<PPS, "ext-linear", "Check for issues, sprints, and project tracking">>,
     <<PPS, "ext-notion-work", "Check for project docs, specs, and team knowledge base">>,
     <<PPS, "ext-gdocs-work", "Check for meeting notes and project docs">>,
     <<"code", "ext-linear", "Check for engineering issues and tech specs">>,
     <<"code", "ext-notion-work", "Check for technical specs and architecture docs">>,
     <<"code", "ext-gdocs-work", "Check for technical specs and design docs">>,
     <<"research", "ext-notion-work", "Check for research docs and references">>,
     <<"research", "ext-gdocs-work", "Check for research notes">>,
     <<"general", "ext-linear", "Check for work context and project status">>,
     <<"general", "ext-notion-work", "Check for work docs and knowledge base">>,
     <<"general", "ext-gdocs-work", "Check for work docs and notes">> >>

\* the priority V3 gives the k-th external hint: 100, 101, 102 within each
\* context (research has two hints: 100, 101)
ExtPriority(k) ==
  99 + Cardinality({j \in 1..k : ExtReasons[j][1] = ExtReasons[k][1]})

ExtRules ==
  [k \in 1..Len(ExtReasons) |->
     R(ExtReasons[k][1], ExtReasons[k][2], ExtPriority(k), ExtReasons[k][3])]

\* "ordered" of V3's reorder helper: the desired ids that have a rule, in
\* the desired order, then the remaining rules in the order of the SELECT
DesiredThenRest(ord, desiredOrder) ==
  LET present == SelectSeq(desiredOrder,
                           LAMBDA sid : \E i \in 1..Len(ord) : ord[i].source_id = sid)
      rest    == SelectSeq(SourceIdsOf(ord), LAMBDA sid : sid \notin Range(present))
  IN present \o rest

\* the reorder helper of migrateExternalHintSourcesToDbV3
V3Reorder(o, context, desiredOrder) ==
  IF o.err THEN {o}
  ELSE {RunUpdates(o, ReorderUpdates(context, DesiredThenRest(ord, desiredOrder))) :
          ord \in OrderByPriority(RulesOf(o.db, context))}

V3Orders ==
  << <<PPS, <<"ext-linear", "ext-notion-work", "ext-gdocs-work", "kb-notes">> >>,
     <<"code", <<"github", "ext-linear", "ext-notion-work", "ext-gdocs-work",
                 "kb-bookmarks", "kb-notes">> >>,
     <<"research", <<"kb-notes", "kb-bookmarks", "github", "ext-notion-work",
                     "ext-gdocs-work">> >>,
     <<"general", <<"kb-notes", "kb-bookmarks", "ext-linear", "ext-notion-work",
                    "ext-gdocs-work">> >> >>

RECURSIVE V3ReorderAll(_, _)
V3ReorderAll(outcomes, orders) ==
  IF orders = <<>> THEN outcomes
  ELSE V3ReorderAll(
         Then(outcomes, LAMBDA o : V3Reorder(o, Head(orders)[1], Head(orders)[2])),
         Tail(orders))

migrateExternalHintSourcesToDbV3(o) ==
  IF "ext-linear" \in SourceIds(o.db) THEN {o}
  ELSE {Txn(o, r) :
          r \in V3ReorderAll(
                  Then(RemoveSources({o}, WorkSources),
                       LAMBDA x : {InsertOrIgnoreRules(
                                     InsertOrIgnoreSources(x, ExtSources), ExtRules)}),
                  V3Orders)}

RECURSIVE UpdateReasons(_, _)
UpdateReasons(o, triples) ==
  IF triples = <<>> THEN o
  ELSE UpdateReasons(
         UpdateReason(o, Head(triples)[1], Head(triples)[2], Head(triples)[3]),
         Tail(triples))

migrateExternalHintReasonsV4(o) ==
  IF \A r \in RuleAt(o.db, "code", "ext-linear") :
       r.reason = "Check for engineering issues and tech specs"
    THEN o
    ELSE Txn(o, UpdateReasons(o, ExtReasons))

migrateRemoveOrphanGdocsSourceV5(o) ==
  IF "gdocs" \notin SourceIds(o.db) THEN o
  ELSE DeleteSource(DeleteRulesOfSource(o, "gdocs"), "gdocs")

\* CREATE TABLE IF NOT EXISTS sources / source_rules / contexts: a new
\* source_rules table is created without UNIQUE(context, priority)
CreateTables(o) ==
  IF o.db.schema = "none" THEN [o EXCEPT !.db.schema = "legacy"] ELSE o

\* initSchema up to the last migration step
initSchemaBeforeV5(d) ==
  LET s1  == migrateSourceRulesConstraint(CreateTables(Ok(d)))
      s2  == Then(s1,  LAMBDA o : {seedDefaultSources(o)})
      s3  == Then(s2,  LAMBDA o : {seedDefaultContexts(o)})
      s4  == Then(s3,  LAMBDA o : migrateRemoveStaleSourcesV1(o))
      s5  == Then(s4,  LAMBDA o : {migrateWritingsDescriptionV1(o)})
      s6  == Then(s5,  LAMBDA o : {migrateRenameProjectManagementContextV1(o)})
      s7  == Then(s6,  LAMBDA o : {migrateProductStrategyDescriptionV2(o)})
      s8  == Then(s7,  LAMBDA o : migrateRemoveWorkSourcesV2(o))
      s9  == Then(s8,  LAMBDA o : migrateExternalHintSourcesToDbV3(o))
  IN Then(s9,  LAMBDA o : {migrateExternalHintReasonsV4(o)})

initSchema(d) ==
  Then(initSchemaBeforeV5(d), LAMBDA o : {migrateRemoveOrphanGdocsSourceV5(o)})

----------------------------------------------------------------------------
(* db.ts, earlier release: initSchema and seedDefaultSources without the   *)
(* contexts table and without UNIQUE(context, priority)                    *)

OldSeedSources ==
  << S("kb-notes", "Personal notes with full-text search"),
     S("kb-bookmarks", "Saved URLs and references"),
     S("writings", "Website, blog posts, and LinkedIn profile"),
     S("writings-static-drift",
       "Published Static Drift fiction and posts tagged 'staticdrift' on robin-cannon.com"),
     S("github", "GitHub repo search and API access"),
     S("vault", "StaticDrift fiction universe - private creative writing repo"),
     S("linear", "Project management - issues, teams, assignments") >>

OldSeedRules ==
  << R("code", "github", 1,
       "GitHub is the primary source for code, repos, and open-source references"),
     R("code", "kb-bookmarks", 2,
       "Bookmarks may contain saved technical references"),
     R("code", "kb-notes", 3,
       "Notes may contain code snippets or technical decisions"),
     R("project-management", "linear", 1,
       "Linear is the source of truth for issues, sprints, and team work"),
     R("project-management", "kb-notes", 2,
       "Notes may contain meeting notes or project context"),
     R("creative-writing", "vault", 1,
       "The creative vault is the primary source for fiction and creative work"),
     R("creative-writing", "writings", 2,
       "Shiny Toy Robots and Alternate Frequencies sections contain published creative writing"),
     R("creative-writing", "kb-notes", 3,
       "Notes may contain story ideas or writing drafts"),
     R("static-drift", "vault", 1,
       "The StaticDrift folder in the creative vault is the canonical source for the Static Drift universe"),
     R("static-drift", "writings-static-drift", 2,
       "Published Static Drift posts on robin-cannon.com tagged 'staticdrift'"),
     R("static-drift", "writings", 3,
       "Shiny Toy Robots and Alternate Frequencies may contain related creative pieces"),
     R("static-drift", "kb-notes", 4,
       "Notes may contain world-building ideas or story planning"),
     R("personal-brand", "writings", 1,
       "Website and blog are the canonical public presence"),
     R("personal-brand", "kb-bookmarks", 2,
       "Bookmarks may track published content or press"),
     R("research", "kb-notes", 1,
       "Notes are the primary place to store research findings"),
     R("research", "kb-bookmarks", 2,
       "Bookmarks save reference material"),
     R("research", "github", 3,
       "GitHub repos can be research references"),
     R("general", "kb-notes", 1,
       "Notes are the most versatile knowledge store"),
     R("general", "kb-bookmarks", 2,
       "Bookmarks provide quick references"),
     R("general", "linear", 3,
       "Linear provides work context") >>

OldSeedDefaultSources(o) ==
  IF o.db.sources # {} THEN o
  ELSE Txn(o, InsertOrIgnoreRules(InsertOrIgnoreSources(o, OldSeedSources), OldSeedRules))

OldInitSchema(d) == OldSeedDefaultSources(CreateTables(Ok(d)))

----------------------------------------------------------------------------
(* tools/sources.ts register-source *)

\* INSERT INTO sources ... ON CONFLICT(id) DO UPDATE SET ...
UpsertSource(d, id, description) ==
  [d EXCEPT !.sources = {s \in @ : s.id # id} \cup {S(id, description)}]

RegisterSource(id, description) ==
  /\ release = "new"
  /\ db' = UpsertSource(db, id, description)
  /\ last' = [Served("register-source", "", id, <<>>, "", "ok", <<>>)
                EXCEPT !.reason = description]

----------------------------------------------------------------------------
(* dashboard API of the earlier release: PUT and DELETE /api/routing *)

\* INSERT INTO source_rules ... ON CONFLICT(context, source_id)
\* DO UPDATE SET priority = ?, reason = ?
UpsertRuleAt(o, r) ==
  LET others == o.db.source_rules \ RuleAt(o.db, r.context, r.source_id)
      clash  == o.db.schema = "current" /\
                \E k \in others : k.context = r.context /\ k.priority = r.priority
  IN IF clash \/ RuleForeignKeyFails(o.db, r) THEN [o EXCEPT !.err = TRUE]
     ELSE [o EXCEPT !.db.source_rules = others \cup {r}]

OldPutRouting(access, context, sourceId, priority, reason) ==
  /\ release = "old"
  /\ IF access # "full"
       THEN db' = db /\ last' = Refused("old PUT /api/routing", access, "403")
     ELSE IF context = "" \/ sourceId = "" \/ reason = ""
       THEN db' = db /\ last' = Refused("old PUT /api/routing", access, "400")
     ELSE IF sourceId \notin SourceIds(db)
       THEN /\ db' = db
            /\ last' = Served("old PUT /api/routing", context, sourceId, <<>>, reason,
                              "404", <<>>)
     ELSE LET o == UpsertRuleAt(Ok(db), R(context, sourceId, priority, reason))
          IN /\ db' = o.db
             /\ last' = Served("old PUT /api/routing", context, sourceId, <<>>, reason,
                               IF o.err THEN "500" ELSE "200", <<>>)

OldDeleteRouting(access, context, sourceId) ==
  /\ release = "old"
  /\ IF access # "full"
       THEN db' = db /\ last' = Refused("old DELETE /api/routing", access, "403")
     ELSE IF context = "" \/ sourceId = ""
       THEN db' = db /\ last' = Refused("old DELETE /api/routing", access, "400")
     ELSE /\ db' = DeleteRule(Ok(db), context, sourceId).db
          /\ last' = Served("old DELETE /api/routing", context, sourceId, <<>>, "",
                            IF RuleAt(db, context, sourceId) = {} THEN "404" ELSE "200",
                            <<>>)

----------------------------------------------------------------------------
(* db.ts: getDb, the first call of a process *)

\* A process of the current release starts and calls getDb for the first
\* time: "db" is assigned, then initSchema runs.  When initSchema throws,
\* "db" stays assigned, and the caller of the first getDb (the HTTP server's
\* startup pruning, http.ts 271-275) catches the exception and goes on.
Start ==
  /\ \E o \in initSchema(db) :
       /\ db' = o.db
       /\ last' = [NoRequest EXCEPT !.op = "initSchema", !.pre = db, !.log = o.log,
                                    !.status = IF o.err THEN "threw" ELSE "ok"]
       /\ handle' = IF o.err THEN "incomplete" ELSE "complete"
  /\ release' = "new"
  /\ UNCHANGED <<edits, reg>>

\* the earlier release opens the store file for the first time
StartOld ==
  /\ release = "none"
  /\ db' = OldInitSchema(db).db
  /\ last' = [NoRequest EXCEPT !.op = "OldInitSchema", !.pre = db, !.status = "ok"]
  /\ release' = "old"
  /\ handle' = "complete"
  /\ UNCHANGED <<edits, reg>>

----------------------------------------------------------------------------
\* getDb(): "if (db) return db"; otherwise db is assigned and initSchema
\* runs, and an exception of initSchema reaches the caller with db assigned.
\* w is [handle, db, health, boot]; the result is the set of possible
\* [w, threw].  Nothing writes the store before the first getDb() of a
\* process, so what initSchema does then is what it does on the store file
\* the process found, w.boot = initSchema(db) of the initial state.
getDb(w) ==
  IF w.handle # "unset" THEN {[w |-> w, threw |-> FALSE]}
  ELSE {[w |-> [w EXCEPT !.db = o.db, !.boot = {},
                         !.handle = IF o.err THEN "incomplete" ELSE "complete"],
         threw |-> o.err] : o \in w.boot}

----------------------------------------------------------------------------
(* adapters/mcp-proxy.ts: McpProxyAdapter *)

AdapterIds == {"gdocs", "digest"}

\* the logical sources syncSourcesToDb adds for the Google adapter
LogicalIds == {"gdocs-work", "gdocs-personal"}

AdapterDescription(a) ==
  IF a = "gdocs" THEN "Google Docs, Drive, and Workspace via google-mcp-server"
  ELSE "Curated content digests from blog pipelines"

\* annotations of an upstream tool: none, readOnlyHint true, readOnlyHint
\* false, destructiveHint true
\* the annotations an upstream may give a tool, by name: none at all, or an
\* annotations object with readOnlyHint and destructiveHint each true,
\* false or left out
Hints == {"none", "readOnly", "notReadOnly", "destructive", "unmarked",
          "notDestructive", "readOnlyDestructive"}

\* tool.annotations for a hint name
Annotations(hint) ==
  [present         |-> hint # "none",
   readOnlyHint    |-> IF hint \in {"readOnly", "readOnlyDestructive"} THEN "true"
                       ELSE IF hint = "notReadOnly" THEN "false" ELSE "undefined",
   destructiveHint |-> IF hint \in {"destructive", "readOnlyDestructive"} THEN "true"
                       ELSE IF hint = "notDestructive" THEN "false" ELSE "undefined"]

T(name, hint) == [name |-> name, hint |-> hint]

\* what listTools() of the upstream may answer
Catalogs(a) ==
  IF a = "gdocs"
    THEN {{T("docs_document_get", "readOnly"), T("docs_document_create", "destructive"),
           T("sheets_get", "none")},
          {T("docs_document_get", "destructive"), T("docs_document_create", "readOnly"),
           T("sheets_get", "notReadOnly")}}
    ELSE {{T("get-digest", "none")}}

\* what listResources() of the upstream may answer
ResourceCatalog(a) == IF a = "gdocs" THEN {"doc"} ELSE {}

\* an optional list of the adapter's configuration
Absent == [given |-> FALSE, names |-> {}]

Given(names) == [given |-> TRUE, names |-> names]

\* the configurations the factory may have added; "enabled" is a field of
\* every AdapterConfig
Configs(a) ==
  IF a = "gdocs"
    THEN [enabled    : BOOLEAN,
          toolFilter : {Absent, Given({"docs_document_get", "docs_document_create"})},
          writeTools : {Absent, Given({"docs_document_create"}),
                        Given({"docs_document_get"})}]
    ELSE [enabled    : BOOLEAN,
          toolFilter : {Given({"get-digest"})},
          writeTools : {Absent}]

\* getAdapterRegistry(): both adapters configured and enabled, the Google
\* adapter with a toolFilter and a writeTools list
DefaultConfig ==
  [a \in AdapterIds |->
     IF a = "gdocs"
       THEN [enabled |-> TRUE,
             toolFilter |-> Given({"docs_document_get", "docs_document_create"}),
             writeTools |-> Given({"docs_document_create"})]
       ELSE [enabled |-> TRUE, toolFilter |-> Given({"get-digest"}),
             writeTools |-> Absent]]

\* mutant: every tool whose annotations do not say readOnlyHint: true is a
\* write tool
isWriteToolUnlessReadOnly(t) ==
  /\ Annotations(t.hint).present
  /\ \/ Annotations(t.hint).destructiveHint = "true"
     \/ Annotations(t.hint).readOnlyHint # "true"

\* isWriteTool(tool): if (!annotations) return false; if
\* (annotations.destructiveHint) return true; if (annotations.readOnlyHint
\* === false) return true; return false
isWriteTool(t) ==
  IF ~Annotations(t.hint).present THEN FALSE
  ELSE IF Annotations(t.hint).destructiveHint = "true" THEN TRUE
  ELSE IF Annotations(t.hint).readOnlyHint = "false" THEN TRUE
  ELSE FALSE

\* mutant: a tool outside the writeTools list is still a write tool when the
\* upstream's hints say so
IsWriteWithHints(cfg, t) ==
  IF cfg.writeTools.given THEN t.name \in cfg.writeTools.names \/ isWriteTool(t)
  ELSE isWriteTool(t)

\* isWrite: writeSet ? writeSet.has(t.name) : isWriteTool(t)
IsWrite(cfg, t) ==
  IF cfg.writeTools.given THEN t.name \in cfg.writeTools.names ELSE isWriteTool(t)

\* this.tools = toolsResult.tools.map(...); the upstream's hint is kept
\* beside the tool for reference
Discovered(cfg, catalog) ==
  {[name |-> t.name, hint |-> t.hint, isWrite |-> IsWrite(cfg, t)] : t \in catalog}

\* mutant: getTools() without the allow-list
getToolsUnfiltered(cfg, tools) == tools

\* getTools()
getTools(cfg, tools) ==
  IF cfg.toolFilter.given THEN {t \in tools : t.name \in cfg.toolFilter.names}
  ELSE tools


----------------------------------------------------------------------------
(* adapters/registry.ts: AdapterRegistry; analytics/tracker.ts *)

\* calls of ensureInitialized in one process
MaxCalls == 2

\* the prefix of an adapter's configuration
Prefix(a) == IF a = "gdocs" THEN "gdocs-" ELSE "digest-"

\* `${prefix}${tool.name}`
Prefixed(a, name) == Prefix(a) \o name

\* `robin://adapter/${adapter.config.id}/${resource.uri}`
PrefixedUri(a, uri) == "robin://adapter/" \o a \o "/" \o uri

\* the upstream was not asked
NoAnswer == [threw |-> FALSE, isError |-> FALSE, text |-> ""]

\* no mounted tool or resource has been called
NoCall ==
  [kind |-> "none", adapter |-> "", mounted |-> "", sent |-> "",
   upstream |-> "none", answer |-> NoAnswer, outcome |-> "none",
   isError |-> FALSE, text |-> ""]

\* the registry of a process before any call: "adapters" filled by the
\* factory, "initialized" false.  pc is where each adapter's initialize()
\* stands, run where the body of ensureInitialized stands, health the
\* adapter_health table, rows the tools and resources columns of sources,
\* session the server the last createServer call built, boot the outcomes
\* of initSchema on the store file the process found, client each
\* adapter's "client" field, call the last call of a mounted tool or
\* resource, closing the calls of shutdownAll.
\* the sources register-source is called for
RegisteredIds == {"notion"}

\* sources.ts "let routingCacheText: string | null = null"
NoGuide == [cached |-> FALSE, sources |-> {}, rules |-> {}, contexts |-> {}]

\* tracker.ts "let sourceMap: Map<string, string> | null = null"
NoSourceMap == [built |-> FALSE, map |-> {}]

\* no resolveSourceId call yet
NoResolved == [tool |-> "", id |-> "", after |-> "none"]

\* no tool has been called yet
NoAudit ==
  [invocations |-> 0, stored |-> 0,
   last |-> [toolName |-> "", handled |-> <<>>, outcome |-> <<>>, attempts |-> <<>>]]

Registry(config) ==
  [config      |-> config,
   initialized |-> FALSE,
   run         |-> "notCalled",
   waiting     |-> FALSE,
   calls       |-> 0,
   pc          |-> [a \in AdapterIds |-> "idle"],
   tools       |-> [a \in AdapterIds |-> {}],
   resources   |-> [a \in AdapterIds |-> {}],
   inits       |-> [a \in AdapterIds |-> 0],
   syncs       |-> 0,
   health      |-> <<>>,
   boot        |-> {},
   rows        |-> [s \in AdapterIds \cup LogicalIds |->
                      [written |-> FALSE, tools |-> {}, resources |-> {}]],
   session     |-> [built |-> FALSE, readOnly |-> FALSE, run |-> "notCalled",
                    native |-> {}, tools |-> {}, resources |-> {}],
   client      |-> [a \in AdapterIds |-> "null"],
   call        |-> NoCall,
   closing     |-> [starts |-> 0, pos |-> 0, attempts |-> <<>>, result |-> "none"],
   registered  |-> [s \in RegisteredIds |-> {}],
   routingCacheText |-> NoGuide,
   sourceMap   |-> NoSourceMap,
   resolved    |-> NoResolved,
   audit       |-> NoAudit,
   upstream    |-> [a \in AdapterIds |-> Catalogs(a)]]

Enabled(r) == {a \in AdapterIds : r.config[a].enabled}

World(r) == [handle |-> handle, db |-> db, health |-> r.health, boot |-> r.boot]

\* the store, the handle and the registry after a step
Commit(w, r) ==
  /\ db' = w.db
  /\ handle' = w.handle
  /\ reg' = [r EXCEPT !.health = w.health, !.boot = w.boot]
  /\ UNCHANGED <<last, release, edits>>

\* tracker.ts logAdapterHealth: getDb(), then INSERT INTO adapter_health
logAdapterHealth(w, record) ==
  {IF g.threw THEN g
   ELSE [g EXCEPT !.w.health = Append(@, record)] : g \in getDb(w)}

Up(r, a) ==
  [adapterId |-> a, status |-> "up",
   toolCount |-> Cardinality(getTools(r.config[a], r.tools[a])),
   resourceCount |-> Cardinality(r.resources[a])]

Down(a) == [adapterId |-> a, status |-> "down", toolCount |-> 0, resourceCount |-> 0]

\* mutant: the latch is not looked at
ensureInitializedUnlatched(r) ==
  [r EXCEPT !.initialized = TRUE,
            !.run = "awaiting",
            !.pc = [a \in AdapterIds |-> IF a \in Enabled(r) THEN "connect" ELSE @[a]],
            !.client = [a \in AdapterIds |-> IF a \in Enabled(r) THEN "set" ELSE @[a]],
            !.inits = [a \in AdapterIds |-> IF a \in Enabled(r) THEN @[a] + 1 ELSE @[a]]]

\* ensureInitialized up to its await: "if (this.initialized) return", the
\* latch, and initialize() called on every enabled adapter, each of which
\* assigns this.client and runs up to its own await of client.connect()
ensureInitialized(r) ==
  IF r.initialized THEN r
  ELSE [r EXCEPT !.initialized = TRUE,
                 !.run = "awaiting",
                 !.pc = [a \in AdapterIds |-> IF a \in Enabled(r) THEN "connect" ELSE @[a]],
                 !.client = [a \in AdapterIds |-> IF a \in Enabled(r) THEN "set" ELSE @[a]],
                 !.inits = [a \in AdapterIds |-> IF a \in Enabled(r) THEN @[a] + 1 ELSE @[a]]]

\* mutant: no catch block and Promise.all: the first failure rejects
\* ensureInitialized
ThrewUncaught(r, a) ==
  Commit(World(r), [r EXCEPT !.pc[a] = "threw", !.run = "threw", !.waiting = FALSE])

\* the catch block of the adapter's task in ensureInitialized
Threw(r, a) ==
  \E g \in logAdapterHealth(World(r), Down(a)) :
    Commit(g.w, [r EXCEPT !.pc[a] = "threw"])

\* initialize() returned: the rest of the try block logs "up"; when that
\* throws, the catch block logs "down"
Completed(r, a) ==
  \E g \in logAdapterHealth(World(r), Up(r, a)) :
    IF ~g.threw THEN Commit(g.w, [r EXCEPT !.pc[a] = "completed"])
    ELSE \E h \in logAdapterHealth(g.w, Down(a)) :
           Commit(h.w, [r EXCEPT !.pc[a] = "completed"])

\* await this.client.connect(transport) settles; the next statement calls
\* this.client.listTools(), which throws when shutdown() has set the client
\* to null in between
Connect(a) ==
  /\ reg.pc[a] = "connect"
  /\ \E ok \in BOOLEAN :
       IF ok /\ reg.client[a] = "set"
         THEN /\ reg' = [reg EXCEPT !.pc[a] = "listTools"]
              /\ UNCHANGED <<db, last, release, edits, handle>>
       ELSE Threw(reg, a)

\* await this.client.listTools() settles; this.tools is assigned, then
\* this.client.listResources() is called
ListTools(a) ==
  /\ reg.pc[a] = "listTools"
  /\ \E ok \in BOOLEAN, catalog \in reg.upstream[a] :
       IF ok /\ reg.client[a] = "set"
         THEN /\ reg' = [reg EXCEPT !.pc[a] = "listResources",
                                    !.tools[a] = Discovered(reg.config[a], catalog)]
              /\ UNCHANGED <<db, last, release, edits, handle>>
       ELSE IF ok
         THEN Threw([reg EXCEPT !.tools[a] = Discovered(reg.config[a], catalog)], a)
       ELSE Threw(reg, a)

\* await this.client.listResources() settles; this.resources is assigned
\* and initialize() returns
ListResources(a) ==
  /\ reg.pc[a] = "listResources"
  /\ \E ok \in BOOLEAN :
       IF ok THEN Completed([reg EXCEPT !.resources[a] = ResourceCatalog(a)], a)
       ELSE Threw(reg, a)

\* mutant: ensureRule moves an existing rule to the end of its context
ensureRuleReappend(o, context, source_id, reason) ==
  IF o.err THEN {o}
  ELSE IF RuleAt(o.db, context, source_id) # {}
       THEN {UpdatePriority(UpdateReason(o, context, source_id, reason),
                            context, source_id, max_p + 1) :
               max_p \in {MaxPriority(o.db, context)}}
  ELSE {InsertRule(o, R(rule[1], rule[2], max_p + 1, rule[3])) :
          max_p \in {MaxPriority(o.db, context)},
          rule \in {<<context, source_id, reason>>}}

\* ensureRule of syncSourcesToDb: the set of its outcomes
ensureRule(o, context, source_id, reason) ==
  IF o.err THEN {o}
  ELSE IF RuleAt(o.db, context, source_id) # {}
       THEN {UpdateReason(o, context, source_id, reason)}
  ELSE {InsertRule(o, R(rule[1], rule[2], max_p + 1, rule[3])) :
          max_p \in {MaxPriority(o.db, context)},
          rule \in {<<context, source_id, reason>>}}

GdocsRules ==
  << <<"product-and-project-strategy", "gdocs-work",
       "Work Google Docs may contain meeting notes and project docs (use account: robin@knapsack.cloud)">>,
     <<"code", "gdocs-work",
       "Work Google Docs may contain technical specs and design docs (use account: robin@knapsack.cloud)">>,
     <<"creative-writing", "gdocs-personal",
       "Personal Google Docs may contain writing drafts (use account: robin.cannon@gmail.com)">>,
     <<"research", "gdocs-personal",
       "Personal Google Docs may contain research notes (use account: robin.cannon@gmail.com)">>,
     <<"general", "gdocs-personal",
       "Personal Google Docs for general documents (use account: robin.cannon@gmail.com)">> >>

DigestRules ==
  << <<"research", "digest",
       "Content digests provide curated insights from PM and industry blogs">>,
     <<"general", "digest",
       "Content digests may contain relevant curated knowledge snippets">> >>

\* the ensureRule calls in order, on every outcome so far
RECURSIVE ensureRules(_, _)
ensureRules(outcomes, rules) ==
  IF rules = <<>> THEN outcomes
  ELSE ensureRules(UNION {ensureRule(o, rule[1], rule[2], rule[3]) :
                            o \in outcomes, rule \in {Head(rules)}},
                   Tail(rules))

GdocsWorkDescription ==
  "Google Docs & Drive for robin@knapsack.cloud. Use account parameter 'robin@knapsack.cloud' with gdocs-* tools. Contains Knapsack work docs, meeting notes, and professional content."

GdocsPersonalDescription ==
  "Google Docs & Drive for robin.cannon@gmail.com. Use account parameter 'robin.cannon@gmail.com' with gdocs-* tools. Contains personal docs, creative writing drafts, and mixed-use content."

\* syncSourcesToDb on the store: the rows of the enabled adapters, the
\* logical sources of the Google adapter, and their rules; no transaction.
\* The result is the set of its outcomes.
syncStore(d, r) ==
  LET d1 == IF "gdocs" \in Enabled(r)
              THEN UpsertSource(d, "gdocs", AdapterDescription("gdocs")) ELSE d
      d2 == IF "digest" \in Enabled(r)
              THEN UpsertSource(d1, "digest", AdapterDescription("digest")) ELSE d1
      d3 == IF "gdocs" \in Enabled(r)
              THEN UpsertSource(UpsertSource(d2, "gdocs-work", GdocsWorkDescription),
                                "gdocs-personal", GdocsPersonalDescription)
              ELSE d2
  IN ensureRules({Ok(d3)},
                 (IF "gdocs" \in Enabled(r) THEN GdocsRules ELSE <<>>) \o
                 (IF "digest" \in Enabled(r) THEN DigestRules ELSE <<>>))

\* the tools and resources columns syncSourcesToDb writes
syncRows(r) ==
  [s \in AdapterIds \cup LogicalIds |->
     IF s \in Enabled(r)
       THEN [written |-> TRUE,
             tools |-> {Prefixed(s, t.name) : t \in getTools(r.config[s], r.tools[s])},
             resources |-> {PrefixedUri(s, u) : u \in r.resources[s]}]
     ELSE IF s \in LogicalIds /\ "gdocs" \in Enabled(r)
       THEN [written |-> TRUE,
             tools |-> {Prefixed("gdocs", t.name) :
                          t \in getTools(r.config["gdocs"], r.tools["gdocs"])},
             resources |-> {}]
     ELSE r.rows[s]]

\* mutant: "if (readOnly && tool.isWrite) continue" left out
registerOnServerUnfiltered(r, readOnly) ==
  [tools     |-> {[adapter |-> a, name |-> t.name, isWrite |-> t.isWrite,
                   mounted |-> Prefixed(a, t.name)] :
                    <<a, t>> \in {<<a, t>> \in AdapterIds \X UNION {r.tools[b] : b \in AdapterIds} :
                                   /\ a \in Enabled(r)
                                   /\ t \in getTools(r.config[a], r.tools[a])}},
   resources |-> {[adapter |-> au[1], uri |-> au[2], mounted |-> PrefixedUri(au[1], au[2])] :
                    au \in {<<a, u>> \in AdapterIds \X UNION {r.resources[b] : b \in AdapterIds} :
                              a \in Enabled(r) /\ u \in r.resources[a]}}]

\* registerOnServer(server, readOnly): the adapter tools and resources it
\* mounts
registerOnServer(r, readOnly) ==
  [tools     |-> {[adapter |-> a, name |-> t.name, isWrite |-> t.isWrite,
                   mounted |-> Prefixed(a, t.name)] :
                    <<a, t>> \in {<<a, t>> \in AdapterIds \X UNION {r.tools[b] : b \in AdapterIds} :
                                   /\ a \in Enabled(r)
                                   /\ t \in getTools(r.config[a], r.tools[a])
                                   /\ ~(readOnly /\ t.isWrite)}},
   resources |-> {[adapter |-> au[1], uri |-> au[2], mounted |-> PrefixedUri(au[1], au[2])] :
                    au \in {<<a, u>> \in AdapterIds \X UNION {r.resources[b] : b \in AdapterIds} :
                              a \in Enabled(r) /\ u \in r.resources[a]}}]

\* the tools of tools/bookmarks.ts and tools/sources.ts a server gets
NativeWriteTools == {"save-bookmark", "delete-bookmark", "set-source-rule", "register-source"}

NativeReadTools == {"search-bookmarks", "get-source-routing"}

registerNativeTools(readOnly) ==
  IF readOnly THEN NativeReadTools ELSE NativeReadTools \cup NativeWriteTools

\* the server createServer returns once registerOnServer has run; run is
\* what the body of ensureInitialized had reached at that moment
Session(r, readOnly) ==
  [built     |-> TRUE,
   readOnly  |-> readOnly,
   run       |-> r.run,
   native    |-> registerNativeTools(readOnly),
   tools     |-> IF readOnly THEN {} ELSE registerOnServer(r, readOnly).tools,
   resources |-> IF readOnly THEN {} ELSE registerOnServer(r, readOnly).resources]

\* Promise.allSettled has settled: invalidateSourceCache(), then
\* syncSourcesToDb(), whose getDb() or statements may throw; a createServer
\* call that awaited ensureInitialized goes on to registerOnServer
Settle ==
  /\ reg.run = "awaiting"
  /\ \A a \in Enabled(reg) : reg.pc[a] \in {"completed", "threw"}
  /\ \E g \in getDb(World(reg)) :
       IF g.threw
         THEN Commit(g.w, [reg EXCEPT !.run = "threw", !.waiting = FALSE,
                                      !.sourceMap = NoSourceMap])
       ELSE \E o \in syncStore(g.w.db, reg) :
              \E r \in {[reg EXCEPT !.run = IF o.err THEN "threw" ELSE "returned",
                                    !.syncs = @ + 1,
                                    !.sourceMap = NoSourceMap,
                                    !.resolved = IF o.err THEN @ ELSE [NoResolved EXCEPT !.after = "sync"],
                                    !.rows = IF o.err THEN @ ELSE syncRows(reg),
                                    !.waiting = FALSE]} :
                Commit([g.w EXCEPT !.db = o.db],
                       IF reg.waiting /\ ~o.err
                         THEN [r EXCEPT !.session = Session(r, FALSE)] ELSE r)

\* http.ts, app.listen callback: "await registry.ensureInitialized()"
PreInitialize ==
  /\ reg.calls < MaxCalls
  /\ reg' = [ensureInitialized(reg) EXCEPT !.calls = @ + 1]
  /\ UNCHANGED <<db, last, release, edits, handle>>

\* createServer({ readOnly }): the native tools, then for a session with
\* full access ensureInitialized and registerOnServer.  A call that finds
\* the latch set goes on at once, whatever the first call has reached.
CreateServer(readOnly) ==
  /\ readOnly \/ reg.calls < MaxCalls
  /\ ~reg.waiting
  /\ LET r == [ensureInitialized(reg) EXCEPT !.calls = @ + 1]
     IN reg' = IF readOnly THEN [reg EXCEPT !.session = Session(reg, TRUE)]
               ELSE IF reg.initialized THEN [r EXCEPT !.session = Session(r, FALSE)]
               ELSE [r EXCEPT !.waiting = TRUE]
  /\ UNCHANGED <<db, last, release, edits, handle>>

\* http.ts, app.listen callback: pruneOldAnalytics() in a try block, the
\* first getDb() of an HTTP process
Prune ==
  /\ handle = "unset"
  /\ reg.run = "notCalled"
  /\ \E g \in getDb(World(reg)) : Commit(g.w, reg)

----------------------------------------------------------------------------
(* Calls of mounted adapter tools and resources; shutdown *)

\* calls of shutdownAll in one process
MaxShutdowns == 2

\* what the upstream does with a forwarded call: it answers with a result,
\* which may itself carry isError, or the call throws
UpstreamAnswers ==
  {[threw |-> FALSE, isError |-> FALSE, text |-> "upstream content"],
   [threw |-> FALSE, isError |-> TRUE, text |-> "upstream error result"],
   [threw |-> TRUE, isError |-> FALSE, text |-> "upstream failure"]}

NotInitialized(a) == "Adapter " \o a \o " not initialized"

\* callTool(name, args) and readResource(uri): "if (!this.client) throw",
\* then the call is forwarded under the name it was given
Forward(r, a, name, up) ==
  IF r.client[a] = "null"
    THEN [threw |-> TRUE, upstream |-> "notCalled", sent |-> "", answer |-> NoAnswer,
          isError |-> FALSE, text |-> NotInitialized(a)]
  ELSE [threw |-> up.threw, upstream |-> IF up.threw THEN "threw" ELSE "returned",
        sent |-> name, answer |-> up, isError |-> up.isError, text |-> up.text]

\* mutant: the handler of a mounted tool without its try/catch
ToolHandlerUncaught(r, t, up) ==
  [kind |-> "tool", adapter |-> t.adapter, mounted |-> t.mounted,
   sent |-> Forward(r, t.adapter, t.name, up).sent,
   upstream |-> Forward(r, t.adapter, t.name, up).upstream,
   answer |-> Forward(r, t.adapter, t.name, up).answer,
   outcome |-> IF Forward(r, t.adapter, t.name, up).threw THEN "exception" ELSE "result",
   isError |-> Forward(r, t.adapter, t.name, up).isError,
   text |-> Forward(r, t.adapter, t.name, up).text]

\* the handler registerOnServer gives a mounted tool:
\* try { return await adapter.callTool(tool.name, args) } catch { isError }
ToolHandler(r, t, up) ==
  [kind |-> "tool", adapter |-> t.adapter, mounted |-> t.mounted,
   sent |-> Forward(r, t.adapter, t.name, up).sent,
   upstream |-> Forward(r, t.adapter, t.name, up).upstream,
   answer |-> Forward(r, t.adapter, t.name, up).answer,
   outcome |-> "result",
   isError |-> IF Forward(r, t.adapter, t.name, up).threw THEN TRUE
               ELSE Forward(r, t.adapter, t.name, up).isError,
   text |-> IF Forward(r, t.adapter, t.name, up).threw
              THEN "Error calling " \o t.mounted \o ": " \o
                   Forward(r, t.adapter, t.name, up).text
            ELSE Forward(r, t.adapter, t.name, up).text]

\* the handler registerOnServer gives a mounted resource:
\* const result = await adapter.readResource(resource.uri), no try block
ResourceHandler(r, u, up) ==
  [kind |-> "resource", adapter |-> u.adapter, mounted |-> u.mounted,
   sent |-> Forward(r, u.adapter, u.uri, up).sent,
   upstream |-> Forward(r, u.adapter, u.uri, up).upstream,
   answer |-> Forward(r, u.adapter, u.uri, up).answer,
   outcome |-> IF Forward(r, u.adapter, u.uri, up).threw THEN "exception" ELSE "result",
   isError |-> FALSE,
   text |-> Forward(r, u.adapter, u.uri, up).text]

\* a client calls a tool of the server the last createServer built
CallMountedTool ==
  /\ reg.session.built
  /\ \E t \in reg.session.tools, up \in UpstreamAnswers :
       reg' = [reg EXCEPT !.call = ToolHandler(reg, t, up)]
  /\ UNCHANGED <<db, last, release, edits, handle>>

\* a client reads a resource of the server the last createServer built
ReadMountedResource ==
  /\ reg.session.built
  /\ \E u \in reg.session.resources, up \in UpstreamAnswers :
       reg' = [reg EXCEPT !.call = ResourceHandler(reg, u, up)]
  /\ UNCHANGED <<db, last, release, edits, handle>>

\* the order of addAdapter calls in getAdapterRegistry
AdapterOrder == <<"gdocs", "digest">>

\* mutant: shutdown() without "if (this.client)"
shutdownUnguarded(r, a, ok) ==
  IF r.client[a] = "null" THEN [client |-> "null", did |-> "threw"]
  ELSE IF ok THEN [client |-> "null", did |-> "closed"]
  ELSE [client |-> "set", did |-> "threw"]

\* McpProxyAdapter.shutdown(): "if (this.client) { await this.client.close();
\* this.client = null }"; ok is whether close() returns
shutdown(r, a, ok) ==
  IF r.client[a] = "null" THEN [client |-> "null", did |-> "noop"]
  ELSE IF ok THEN [client |-> "null", did |-> "closed"]
  ELSE [client |-> "set", did |-> "threw"]

\* mutant: the loop of shutdownAll without its try/catch
shutdownAllUncaught(r, ok) ==
  [r EXCEPT
     !.client[AdapterOrder[r.closing.pos]] =
        shutdown(r, AdapterOrder[r.closing.pos], ok).client,
     !.closing.attempts =
        Append(@, [adapter |-> AdapterOrder[r.closing.pos],
                   before |-> r.client[AdapterOrder[r.closing.pos]],
                   did |-> shutdown(r, AdapterOrder[r.closing.pos], ok).did]),
     !.closing.pos =
        IF @ = Len(AdapterOrder) \/ shutdown(r, AdapterOrder[r.closing.pos], ok).did = "threw"
          THEN 0 ELSE @ + 1,
     !.closing.result =
        IF shutdown(r, AdapterOrder[r.closing.pos], ok).did = "threw" THEN "threw"
        ELSE IF r.closing.pos = Len(AdapterOrder) THEN "returned" ELSE @]

\* one round of the loop of shutdownAll: try { await adapter.shutdown() }
\* catch { console.error }
shutdownAll(r, ok) ==
  [r EXCEPT
     !.client[AdapterOrder[r.closing.pos]] =
        shutdown(r, AdapterOrder[r.closing.pos], ok).client,
     !.closing.attempts =
        Append(@, [adapter |-> AdapterOrder[r.closing.pos],
                   before |-> r.client[AdapterOrder[r.closing.pos]],
                   did |-> shutdown(r, AdapterOrder[r.closing.pos], ok).did]),
     !.closing.pos = IF @ = Len(AdapterOrder) THEN 0 ELSE @ + 1,
     !.closing.result = IF r.closing.pos = Len(AdapterOrder) THEN "returned" ELSE @]

\* shutdownAll() is called
ShutdownAll ==
  /\ reg.closing.pos = 0
  /\ reg.closing.starts < MaxShutdowns
  /\ reg' = [reg EXCEPT !.closing = [starts |-> @.starts + 1, pos |-> 1,
                                     attempts |-> <<>>, result |-> "running"]]
  /\ UNCHANGED <<db, last, release, edits, handle>>

\* the awaited shutdown() of the adapter the loop has reached settles
ShutdownNext ==
  /\ reg.closing.pos > 0
  /\ \E ok \in BOOLEAN : reg' = shutdownAll(reg, ok)
  /\ UNCHANGED <<db, last, release, edits, handle>>

----------------------------------------------------------------------------
(* The routing guide cache of tools/sources.ts and the tool-name cache of   *)
(* analytics/tracker.ts                                                     *)

\* the user's writes in one run of the cache specification
MaxWrites == 2

\* the tools column of the source rows: the adapters' rows as
\* syncSourcesToDb wrote them and the rows register-source wrote; the
\* seeded rows are taken without tools
ToolsColumn(d, r) ==
  [s \in SourceIds(d) |->
     IF s \in RegisteredIds THEN r.registered[s]
     ELSE IF s \in AdapterIds \cup LogicalIds THEN r.rows[s].tools
     ELSE {}]

\* the resources column of the source rows
ResourcesColumn(d, r) ==
  [s \in SourceIds(d) |->
     IF s \in AdapterIds \cup LogicalIds THEN r.rows[s].resources ELSE {}]

\* buildRoutingGuide(): what the text holds: every source with its
\* description, tools and resources; every rule joined to its source, with
\* its priority and reason, under its context; the description of a context
\* that has such a rule, when it is not empty
buildRoutingGuide(d, r) ==
  LET joined == {x \in d.source_rules : x.source_id \in SourceIds(d)}
  IN [cached   |-> TRUE,
      sources  |-> {[id |-> s.id, description |-> s.description,
                     tools |-> ToolsColumn(d, r)[s.id],
                     resources |-> ResourcesColumn(d, r)[s.id]] : s \in d.sources},
      rules    |-> {[context |-> x.context, priority |-> x.priority,
                     source_id |-> x.source_id, reason |-> x.reason] : x \in joined},
      contexts |-> {c \in d.contexts : /\ c.description # ""
                                       /\ c.name \in {x.context : x \in joined}}]

\* invalidateRoutingCache()
invalidateRoutingCache(r) == [r EXCEPT !.routingCacheText = NoGuide]

\* the handler of the resource robin://sources/routing: the text is built
\* when there is none or the one there is older than ROUTING_CACHE_TTL_MS
ReadRoutingGuide ==
  /\ reg.session.built
  /\ \E expired \in BOOLEAN :
       IF reg.routingCacheText.cached /\ ~expired
         THEN UNCHANGED vars
       ELSE \E g \in getDb(World(reg)) :
              IF g.threw THEN Commit(g.w, reg)
              ELSE \E text \in {buildRoutingGuide(g.w.db, reg)} :
                     Commit(g.w, [reg EXCEPT !.routingCacheText = text])

\* a request of the user in the running process, the store being open
Write ==
  /\ handle # "unset"
  /\ edits < MaxWrites
  /\ edits' = edits + 1
  /\ UNCHANGED <<release, handle>>

\* the tool set-source-rule: invalidateRoutingCache() after either write
ToolSetSourceRule ==
  /\ reg.session.built /\ ~reg.session.readOnly
  /\ Write
  /\ SetSourceRule("research", "kb-notes", "my notes")
  /\ reg' = IF last'.status = "ok" THEN invalidateRoutingCache(reg) ELSE reg

\* the tool lists register-source is called with
RegisteredTools == {{"notion-search"}}

\* the tool register-source: the upsert of the row, then
\* invalidateRoutingCache()
ToolRegisterSource ==
  /\ reg.session.built /\ ~reg.session.readOnly
  /\ Write
  /\ \E id \in RegisteredIds, tools \in RegisteredTools :
       /\ RegisterSource(id, "registered by the user")
       /\ reg' = invalidateRoutingCache(
                   [reg EXCEPT !.registered[id] = tools,
                               !.resolved = [NoResolved EXCEPT !.after = "register-source"]])

\* dashboard DELETE /api/routing: invalidateRoutingCache() after
\* compactPriorities has returned
ApiDeleteRule ==
  /\ Write
  /\ DeleteRouting("full", "research", "kb-notes")
  /\ reg' = IF last'.status = "200" THEN invalidateRoutingCache(reg) ELSE reg

\* the order in which "SELECT id, tools FROM sources WHERE tools != ''"
\* gives the rows with tools: the order of their insertion
ScanOrder == <<"gdocs", "digest", "gdocs-work", "gdocs-personal", "notion">>

\* the Map resolveSourceId fills: sourceMap.set(tool, source.id) for every
\* row in turn, so the last row that lists a tool has it
BuildSourceMap(d, r) ==
  {<<t, ScanOrder[i]>> :
     <<i, t>> \in {<<i, t>> \in (DOMAIN ScanOrder) \X UNION {ToolsColumn(d, r)[s] : s \in SourceIds(d)} :
                    /\ ScanOrder[i] \in SourceIds(d)
                    /\ t \in ToolsColumn(d, r)[ScanOrder[i]]
                    /\ \A j \in DOMAIN ScanOrder :
                         (j > i /\ ScanOrder[j] \in SourceIds(d)) =>
                           t \notin ToolsColumn(d, r)[ScanOrder[j]]}}

\* sourceMap.get(toolName) ?? null
Lookup(map, tool) ==
  IF \E p \in map : p[1] = tool
    THEN (CHOOSE p \in map : p[1] = tool)[2] ELSE "null"

\* the tool names resolveSourceId is called with
ResolvedTools == {"gdocs-docs_document_get", "notion-search"}

\* resolveSourceId(toolName), called for every tool call of an instrumented
\* server: "sourceMap = new Map()" comes before getDb(), so a getDb() that
\* throws leaves an empty Map behind
ResolveSourceId ==
  /\ reg.session.built
  /\ \E tool \in ResolvedTools :
       IF reg.sourceMap.built
         THEN /\ reg' = [reg EXCEPT !.resolved.tool = tool,
                                    !.resolved.id = Lookup(reg.sourceMap.map, tool)]
              /\ UNCHANGED <<db, last, release, edits, handle>>
       ELSE \E g \in getDb(World(reg)) :
              IF g.threw
                THEN Commit(g.w, [reg EXCEPT !.sourceMap = [built |-> TRUE, map |-> {}]])
              ELSE \E m \in {BuildSourceMap(g.w.db, reg)} :
                     Commit(g.w, [reg EXCEPT !.sourceMap = [built |-> TRUE, map |-> m],
                                             !.resolved.tool = tool,
                                             !.resolved.id = Lookup(m, tool)])

----------------------------------------------------------------------------
(* analytics/schema.ts instrumentServer: the wrapper of every tool handler  *)

\* the tool invocations of one run of the audit specification
MaxInvocations == 2

\* what the handler of a native tool may do: return a result, return an
\* isError result, or throw
NativeOutcomes ==
  {[kind |-> "result", isError |-> FALSE, text |-> "done"],
   [kind |-> "result", isError |-> TRUE, text |-> "Source \"nosuch\" not found"],
   [kind |-> "exception", isError |-> FALSE, text |-> "database is locked"]}

\* what the handler of a mounted adapter tool did, as its caller sees it
Handled(c) == [kind |-> c.outcome, isError |-> c.isError, text |-> c.text]

\* mutant: logToolCall called outside a try block
instrumentedUnguarded(toolName, handled, stored) ==
  [toolName |-> toolName,
   handled  |-> handled,
   outcome  |-> IF stored THEN handled
                ELSE [kind |-> "exception", isError |-> FALSE, text |-> "log failed"],
   attempts |-> << [toolName |-> toolName,
                    status |-> IF handled.kind = "exception" \/ handled.isError
                                 THEN "error" ELSE "success",
                    errorMessage |-> IF handled.kind = "exception" \/ handled.isError
                                       THEN handled.text ELSE "",
                    stored |-> stored] >>]

\* wrappedCallback: try { result = await originalCallback(); if
\* (result.isError) status = "error" } catch { status = "error"; throw err }
\* finally { try { logToolCall(...) } catch {} }; return result.  handled is
\* what the original callback did, stored whether logToolCall returned.
instrumented(toolName, handled, stored) ==
  [toolName |-> toolName,
   handled  |-> handled,
   outcome  |-> IF handled.kind = "exception"
                  THEN [kind |-> "exception", isError |-> FALSE, text |-> handled.text]
                ELSE [kind |-> "result", isError |-> handled.isError, text |-> handled.text],
   attempts |-> << [toolName |-> toolName,
                    status |-> IF handled.kind = "exception" THEN "error"
                               ELSE IF handled.isError THEN "error" ELSE "success",
                    errorMessage |-> IF handled.kind = "exception" \/ handled.isError
                                       THEN handled.text ELSE "",
                    stored |-> stored] >>]

\* the tools of the server the last createServer built, each with what its
\* handler may do on this call
Invocations(r) ==
  {[toolName |-> n, handled |-> h, call |-> r.call] :
     n \in r.session.native, h \in NativeOutcomes}
  \cup {[toolName |-> c.mounted, handled |-> Handled(c), call |-> c] :
          c \in {ToolHandler(r, tu[1], tu[2]) : tu \in r.session.tools \X UpstreamAnswers}}

\* a client calls a tool of an instrumented server: the handler, then in the
\* finally block resolveSourceId(toolName), which fills sourceMap when it is
\* null, and logToolCall, whose getDb() or INSERT INTO tool_calls may throw
InvokeTool ==
  /\ reg.session.built
  /\ reg.audit.invocations < MaxInvocations
  /\ \E i \in Invocations(reg), inserted \in BOOLEAN :
       \E g \in getDb(World(reg)) :
         \E m \in {IF reg.sourceMap.built THEN reg.sourceMap
                   ELSE IF g.threw THEN [built |-> TRUE, map |-> {}]
                   ELSE [built |-> TRUE, map |-> BuildSourceMap(g.w.db, reg)]} :
           Commit(g.w,
                  [reg EXCEPT
                     !.sourceMap = m,
                     !.call = i.call,
                     !.audit = [invocations |-> @.invocations + 1,
                                stored |-> @.stored + (IF ~g.threw /\ inserted THEN 1 ELSE 0),
                                last |-> instrumented(i.toolName, i.handled,
                                                      ~g.threw /\ inserted)]])

----------------------------------------------------------------------------
(* Statements that fail: SQLITE_BUSY, SQLITE_FULL or an I/O error may make   *)
(* any statement throw; the statement then changes nothing                  *)

\* the operations with a failing statement in one run
MaxFailures == 3

\* the statement throws
Fail(o) == IF o.err THEN o ELSE [o EXCEPT !.err = TRUE]

\* a list of <<context, source_id, priority>> UPDATEs in order, of which the
\* one at failAt throws (0: none is made to)
RECURSIVE RunUpdatesUntil(_, _, _)
RunUpdatesUntil(o, ups, failAt) ==
  IF ups = <<>> THEN o
  ELSE RunUpdatesUntil(IF failAt = 1 THEN Fail(o)
                       ELSE UpdatePriority(o, Head(ups)[1], Head(ups)[2], Head(ups)[3]),
                       Tail(ups), failAt - 1)

\* compactPriorities, one of its UPDATEs throwing
compactPrioritiesUntil(o, context, failAt) ==
  IF o.err THEN {o}
  ELSE {Txn(o, RunUpdatesUntil(o, CompactUpdates(ord), failAt)) :
          ord \in OrderByPriority(RulesOf(o.db, context))}

\* the reorder transaction of the dashboard, one of its UPDATEs throwing
ReorderTxnUntil(d, context, sourceIds, failAt) ==
  Txn(Ok(d), RunUpdatesUntil(Ok(d), ReorderUpdates(context, sourceIds), failAt))

\* migrateRemoveOrphanGdocsSourceV5, one of its two DELETEs throwing: the
\* statements are run one after the other, outside any transaction
migrateRemoveOrphanGdocsSourceV5Until(o, failAt) ==
  IF "gdocs" \notin SourceIds(o.db) THEN o
  ELSE IF failAt = 1 THEN Fail(o)
  ELSE IF failAt = 2 THEN Fail(DeleteRulesOfSource(o, "gdocs"))
  ELSE DeleteSource(DeleteRulesOfSource(o, "gdocs"), "gdocs")

\* what an operation left behind: the store before it began and whether it
\* threw
Operation(op, context, before, o) ==
  [NoRequest EXCEPT !.op = op, !.context = context, !.pre = before,
                    !.status = IF o.err THEN "threw" ELSE "ok"]

\* a start of the process in which initSchema reaches the migration step V5
StartUntil ==
  /\ handle = "unset"
  /\ \E failAt \in 0..2 :
       \E x \in initSchemaBeforeV5(db) :
         \E o \in {IF x.err THEN x ELSE migrateRemoveOrphanGdocsSourceV5Until(x, failAt)} :
           /\ db' = o.db
           /\ last' = Operation(IF x.err THEN "initSchema"
                                ELSE "migrateRemoveOrphanGdocsSourceV5", "", x.db, o)
           /\ handle' = IF o.err THEN "incomplete" ELSE "complete"
  /\ UNCHANGED <<release, edits, reg>>

\* the process exits
Exit ==
  /\ handle # "unset"
  /\ handle' = "unset"
  /\ UNCHANGED <<db, last, release, edits, reg>>

\* the contexts and sources of the requests
AtomicContexts == {"research", "general"}

AtomicSources == {"kb-notes", "github", "gdocs"}

\* the statements made to fail in a list of n UPDATEs: none, the first, one
\* in the middle, the last
FailPoints(n) == {0, 1, (n + 1) \div 2, n} \cap 0..n

\* dashboard DELETE /api/routing: the DELETE, then compactPriorities with a
\* statement that may throw
DeleteRoutingUntil ==
  /\ handle # "unset"
  /\ edits < MaxFailures
  /\ edits' = edits + 1
  /\ \E c \in AtomicContexts, s \in AtomicSources :
       /\ RuleAt(db, c, s) # {}
       /\ \E d \in {DeleteRule(Ok(db), c, s)} :
            \E failAt \in FailPoints(Cardinality(RulesOf(d.db, c))) :
              \E o \in compactPrioritiesUntil(d, c, failAt) :
                /\ db' = o.db
                /\ last' = Operation("compactPriorities", c, d.db, o)
  /\ UNCHANGED <<release, handle, reg>>

\* the source ids of a sequence of rows, the last row first
Reversed(ord) == [i \in 1..Len(ord) |-> ord[Len(ord) + 1 - i].source_id]

\* dashboard POST /api/routing/reorder with the rules of a context in the
\* opposite order, a statement of the transaction throwing or not
ReorderRoutingUntil ==
  /\ handle # "unset"
  /\ edits < MaxFailures
  /\ edits' = edits + 1
  /\ \E c \in AtomicContexts :
       \E ord \in OrderByPriority(RulesOf(db, c)) :
         /\ ReorderValid(ord, Reversed(ord))
         /\ \E failAt \in FailPoints(2 * Len(ord)) :
              \E o \in {ReorderTxnUntil(db, c, Reversed(ord), failAt)} :
                /\ db' = o.db
                /\ last' = Operation("reorder", c, db, o)
  /\ UNCHANGED <<release, handle, reg>>

\* the tool set-source-rule adds a rule for the adapter's source
AtomicSetRule ==
  /\ handle # "unset"
  /\ edits < MaxFailures
  /\ edits' = edits + 1
  /\ \E c \in AtomicContexts : SetSourceRule(c, "gdocs", "my docs")
  /\ UNCHANGED <<release, handle, reg>>

----------------------------------------------------------------------------
(* http.ts: the /mcp authentication middleware; dashboard/router.ts:        *)
(* dashboardAuth                                                            *)

\* config.authToken and config.readonlyToken: "" when the variable is not set
AuthConfigs ==
  [authToken : {"", "full-secret"}, readonlyToken : {"", "read-secret"}]

\* the tokens a request may carry; "" is a missing parameter or cookie
Tokens == {"", "full-secret", "read-secret", "guess"}

\* an Authorization header: its text is scheme, a space and the credentials;
\* scheme "" is a missing header
Authorization(scheme, credentials) == [scheme |-> scheme, credentials |-> credentials]

Headers ==
  {Authorization("", "")} \cup
  {Authorization(s, t) : s \in {"Bearer", "Token"}, t \in Tokens \ {""}}

\* req.headers.authorization
HeaderText(h) == IF h.scheme = "" THEN "" ELSE h.scheme \o " " \o h.credentials

\* the requests: ?token=, Authorization, Cf-Access-Authenticated-User-Email
\* and the cookie robin_token
Requests ==
  [queryToken : Tokens, authorization : Headers,
   cfAccess : {"", "coworker@knapsack.cloud"}, cookieToken : Tokens]

\* app.use("/mcp", ...): the access the middleware grants, or "401"
mcpAuth(c, q) ==
  IF c.authToken # "" /\
     (q.queryToken = c.authToken \/
      HeaderText(q.authorization) = "Bearer " \o c.authToken)
    THEN "full"
  ELSE IF c.readonlyToken # "" /\
          (q.queryToken = c.readonlyToken \/
           HeaderText(q.authorization) = "Bearer " \o c.readonlyToken)
    THEN "readonly"
  ELSE IF q.cfAccess # "" THEN "readonly"
  ELSE IF c.authToken = "" /\ c.readonlyToken = "" THEN "full"
  ELSE "401"

\* const token = queryToken || cookieToken || (bearerToken?.startsWith(
\* "Bearer ") ? bearerToken.slice(7) : undefined)
DashboardToken(q) ==
  IF q.queryToken # "" THEN q.queryToken
  ELSE IF q.cookieToken # "" THEN q.cookieToken
  ELSE IF q.authorization.scheme = "Bearer" THEN q.authorization.credentials
  ELSE ""

\* dashboardAuth: the access it grants, or "401" (a redirect to the login
\* page for a path outside /api/)
dashboardAuth(c, q) ==
  IF c.authToken # "" /\ DashboardToken(q) = c.authToken THEN "full"
  ELSE IF c.readonlyToken # "" /\ DashboardToken(q) = c.readonlyToken THEN "readonly"
  ELSE IF q.cfAccess # "" THEN "readonly"
  ELSE IF c.authToken = "" /\ c.readonlyToken = "" THEN "full"
  ELSE "401"

\* a request to /mcp passes the middleware
McpRequest ==
  /\ \E q \in {r \in Requests : r.cookieToken = ""} :
       last' = [op |-> "/mcp", config |-> last.config, request |-> q,
                granted |-> mcpAuth(last.config, q)]
  /\ UNCHANGED <<db, release, edits, handle, reg>>

\* a request to /dashboard passes dashboardAuth
DashboardRequest ==
  /\ \E q \in Requests :
       last' = [op |-> "/dashboard", config |-> last.config, request |-> q,
                granted |-> dashboardAuth(last.config, q)]
  /\ UNCHANGED <<db, release, edits, handle, reg>>

----------------------------------------------------------------------------
(* http.ts: the session map of /mcp                                         *)

\* sessions the clients initialize
MaxSessions == 2

\* the clock stops here (minutes since the server started)
MaxClock == 50

\* SESSION_TTL_MS, in minutes
SESSION_TTL == 30

\* the clock advances in steps of ten minutes
ClockStep == 10

\* the header mcp-session-id of a request: 0 when it is missing, the n-th
\* id crypto.randomUUID() returned, or an id the server never issued
NoSessionId == 0

SessionIds == 1..(MaxSessions + 1)

\* the HTTP server before any request: sessions is the Map of http.ts 91,
\* id -> createdAt; issued counts the ids sessionIdGenerator has returned;
\* open is the set of ids whose transport has not been closed; ended is the
\* set of ids that were removed from the map, with the way they were removed
HttpServer ==
  [sessions |-> <<>>, issued |-> 0, open |-> {}, ended |-> {}, clock |-> 0]

\* sessions.delete(id)
SessionsDelete(sessions, ids) == [i \in DOMAIN sessions \ ids |-> sessions[i]]

\* sessions.set(id, { transport, createdAt })
SessionsSet(sessions, id, createdAt) ==
  [i \in DOMAIN sessions \cup {id} |-> IF i = id THEN createdAt ELSE sessions[i]]

Ended(h, ids, how) == h.ended \cup {<<i, how>> : i \in ids \cap DOMAIN h.sessions}

\* setInterval(..., SESSION_SWEEP_MS): every session older than the TTL is
\* deleted from the map; its transport is not closed
SweepSessions ==
  /\ LET stale == {i \in DOMAIN reg.sessions : reg.clock - reg.sessions[i] > SESSION_TTL}
     IN /\ reg' = [reg EXCEPT !.sessions = SessionsDelete(@, stale),
                              !.ended = Ended(reg, stale, "sweep")]
        /\ last' = [op |-> "sweep", id |-> NoSessionId, status |-> ""]
  /\ UNCHANGED <<db, release, edits, handle>>

\* transport.onclose: the client went away or the server closed the transport
TransportClose ==
  /\ \E id \in reg.open :
       /\ reg' = [reg EXCEPT !.sessions = SessionsDelete(@, {id}),
                             !.open = @ \ {id},
                             !.ended = Ended(reg, {id}, "close")]
       /\ last' = [op |-> "close", id |-> id, status |-> ""]
  /\ UNCHANGED <<db, release, edits, handle>>

\* Date.now() moves on
Tick ==
  /\ reg.clock + ClockStep <= MaxClock
  /\ reg' = [reg EXCEPT !.clock = @ + ClockStep]
  /\ last' = [op |-> "tick", id |-> NoSessionId, status |-> ""]
  /\ UNCHANGED <<db, release, edits, handle>>

\* POST /mcp without mcp-session-id: a new transport handles the request;
\* when the body is an initialize request the transport generates an id and
\* onsessioninitialized puts it in the map, otherwise the transport answers
\* 400 and no id is generated
PostWithoutId(body) ==
  IF body = "initialize"
    THEN /\ reg.issued < MaxSessions
         /\ LET id == reg.issued + 1
            IN /\ reg' = [reg EXCEPT !.sessions = SessionsSet(@, id, reg.clock),
                                     !.issued = id,
                                     !.open = @ \cup {id}]
               /\ last' = [op |-> "initialize", id |-> id, status |-> "200"]
    ELSE /\ reg' = reg
         /\ last' = [op |-> "POST", id |-> NoSessionId, status |-> "400"]

\* mutant: DELETE answers but the session stays in the map
DeleteSessionKept(id) ==
  /\ reg' = [reg EXCEPT !.ended = Ended(reg, {id}, "DELETE")]
  /\ last' = [op |-> "DELETE", id |-> id, status |-> "200"]

\* DELETE /mcp of a session in the map: the transport handles the request
\* (and closes, which runs onclose), then sessions.delete(sessionId)
DeleteSession(id) ==
  /\ reg' = [reg EXCEPT !.sessions = SessionsDelete(@, {id}),
                        !.open = @ \ {id},
                        !.ended = Ended(reg, {id}, "DELETE")]
  /\ last' = [op |-> "DELETE", id |-> id, status |-> "200"]

\* app.all("/mcp") for a request that carries mcp-session-id, and for GET
\* and DELETE without it
SessionRequest(method, id) ==
  IF id = NoSessionId
    THEN /\ reg' = reg
         /\ last' = [op |-> method, id |-> id, status |-> "400"]
  ELSE IF id \notin DOMAIN reg.sessions
    THEN /\ reg' = reg
         /\ last' = [op |-> method, id |-> id, status |-> "404"]
  ELSE IF method = "DELETE"
    THEN DeleteSession(id)
  ELSE /\ reg' = reg
       /\ last' = [op |-> method, id |-> id, status |-> "200"]

McpPost ==
  /\ \E id \in {NoSessionId} \cup SessionIds, body \in {"initialize", "tools/call"} :
       IF id = NoSessionId THEN PostWithoutId(body) ELSE SessionRequest("POST", id)
  /\ UNCHANGED <<db, release, edits, handle>>

McpGet ==
  /\ \E id \in {NoSessionId} \cup SessionIds : SessionRequest("GET", id)
  /\ UNCHANGED <<db, release, edits, handle>>

McpDelete ==
  /\ \E id \in {NoSessionId} \cup SessionIds : SessionRequest("DELETE", id)
  /\ UNCHANGED <<db, release, edits, handle>>

----------------------------------------------------------------------------
(* http.ts: the Linear OAuth routes and their CSRF state store              *)

\* state values /auth/linear issues
MaxStates == 2

\* the TTL of a state, in minutes
OAUTH_STATE_TTL == 10

\* the state parameter of a callback: none, the n-th value
\* crypto.randomBytes(32) returned, or a value the server never issued
StateParams == {{}} \cup {{n} : n \in 1..(MaxStates + 1)}

\* the query of GET /auth/linear/callback
CallbackQueries == [code : BOOLEAN, state : StateParams, error : BOOLEAN]

\* the server before any request: oauthStates is the Map of http.ts 181,
\* state -> created; issued counts the values generated; consumed is the set
\* of states a callback deleted, swept the set the sweep deleted; exchanged
\* is the sequence of states exchangeCodeForToken was called for
OAuthServer ==
  [oauthStates |-> <<>>, issued |-> 0, consumed |-> {}, swept |-> {},
   exchanged |-> <<>>, clock |-> 0]

\* GET /auth/linear with LINEAR_CLIENT_ID configured
AuthLinear ==
  /\ reg.issued < MaxStates
  /\ LET state == reg.issued + 1
     IN /\ reg' = [reg EXCEPT !.oauthStates = SessionsSet(@, state, reg.clock),
                              !.issued = state]
        /\ last' = [op |-> "authorize", id |-> {state}, status |-> "302"]
  /\ UNCHANGED <<db, release, edits, handle>>

\* setInterval(..., 60 * 1000): states older than the TTL are deleted
SweepStates ==
  /\ LET stale == {s \in DOMAIN reg.oauthStates :
                     reg.clock - reg.oauthStates[s] > OAUTH_STATE_TTL}
     IN /\ reg' = [reg EXCEPT !.oauthStates = SessionsDelete(@, stale),
                              !.swept = @ \cup stale]
        /\ last' = [op |-> "sweep", id |-> {}, status |-> ""]
  /\ UNCHANGED <<db, release, edits, handle>>

\* exchangeCodeForToken is called for the state of the query
Exchange(h, q) == [h EXCEPT !.exchanged = Append(@, CHOOSE s \in q.state : TRUE)]

\* mutant: the callback leaves the state in the map
CallbackReplayable(h, q, exchangeOk) ==
  IF q.error THEN [server |-> h, status |-> "400"]
  ELSE IF q.state = {} \/ ~(q.state \subseteq DOMAIN h.oauthStates)
    THEN [server |-> h, status |-> "400"]
  ELSE IF ~q.code THEN [server |-> h, status |-> "400"]
  ELSE [server |-> Exchange(h, q), status |-> IF exchangeOk THEN "302" ELSE "500"]

\* GET /auth/linear/callback: the server after the request and the status
\* of the response; exchangeOk tells whether exchangeCodeForToken returns
Callback(h, q, exchangeOk) ==
  IF q.error THEN [server |-> h, status |-> "400"]
  ELSE IF q.state = {} \/ ~(q.state \subseteq DOMAIN h.oauthStates)
    THEN [server |-> h, status |-> "400"]
  ELSE LET deleted == [h EXCEPT !.oauthStates = SessionsDelete(@, q.state),
                                !.consumed = @ \cup q.state]
       IN IF ~q.code THEN [server |-> deleted, status |-> "400"]
          ELSE [server |-> Exchange(deleted, q),
                status |-> IF exchangeOk THEN "302" ELSE "500"]

AuthLinearCallback ==
  /\ \E q \in CallbackQueries, exchangeOk \in BOOLEAN :
       LET r == Callback(reg, q, exchangeOk)
       IN /\ reg' = r.server
          /\ last' = [op |-> "callback", id |-> q.state, status |-> r.status]
  /\ UNCHANGED <<db, release, edits, handle>>

----------------------------------------------------------------------------
(* The Linear OAuth token (getLinearAccessToken and its neighbours): the    *)
(* row of oauth_tokens and the calls that overlap on it                     *)

\* token responses Linear gives
MaxTokens == 3

Callers == {"first", "second"}

\* no row WHERE provider = 'linear'
NoRow == [gen |-> 0, expired |-> FALSE, by |-> "none"]

\* the n-th token response, stored: access and refresh token of generation
\* n; expired when now >= expires_at - EXPIRY_BUFFER_MS
Row(n, by) == [gen |-> n, expired |-> FALSE, by |-> by]

\* row is the row of oauth_tokens; issued counts Linear's token responses;
\* valid is the generation whose refresh token Linear accepts (rotation);
\* calls is where each getLinearAccessToken call stands and the row it read
TokenStore ==
  [row |-> NoRow, issued |-> 0, valid |-> 0,
   calls |-> [c \in Callers |-> [pc |-> "idle", row |-> NoRow, result |-> "none"]]]

\* storeToken(data): INSERT ... ON CONFLICT(provider) DO UPDATE
storeToken(t, by) ==
  [t EXCEPT !.row = Row(t.issued + 1, by), !.issued = @ + 1, !.valid = t.issued + 1]

\* exchangeCodeForToken succeeded: the OAuth callback stores the first token
ExchangeCodeForToken ==
  /\ reg.issued < MaxTokens
  /\ reg' = storeToken(reg, "exchange")
  /\ last' = [op |-> "exchange", caller |-> "", deleted |-> NoRow]
  /\ UNCHANGED <<db, release, edits, handle>>

\* time passes: the stored token comes within five minutes of its expiry
Expire ==
  /\ reg.row # NoRow /\ ~reg.row.expired
  /\ reg' = [reg EXCEPT !.row.expired = TRUE]
  /\ last' = [op |-> "expire", caller |-> "", deleted |-> NoRow]
  /\ UNCHANGED <<db, release, edits, handle>>

\* getLinearAccessToken up to its await: the SELECT, "if (!row) return
\* null", the expiry test, and the fetch of refreshAccessToken sent
GetLinearAccessToken ==
  /\ \E c \in Callers :
       /\ reg.calls[c].pc = "idle"
       /\ reg' = [reg EXCEPT !.calls[c] =
                    IF reg.row = NoRow
                      THEN [pc |-> "idle", row |-> NoRow, result |-> "null"]
                    ELSE IF ~reg.row.expired
                      THEN [pc |-> "idle", row |-> reg.row, result |-> "stored token"]
                    ELSE [pc |-> "refreshing", row |-> reg.row, result |-> "none"]]
       /\ last' = [op |-> "call", caller |-> c, deleted |-> NoRow]
  /\ UNCHANGED <<db, release, edits, handle>>

\* Linear answers the refresh request with a new token pair, which it does
\* only for the refresh token that is valid: storeToken(data)
RefreshSucceeds ==
  /\ reg.issued < MaxTokens
  /\ \E c \in Callers :
       /\ reg.calls[c].pc = "refreshing"
       /\ reg.calls[c].row.gen = reg.valid
       /\ reg' = [storeToken(reg, c) EXCEPT
                    !.calls[c] = [pc |-> "idle", row |-> reg.calls[c].row,
                                  result |-> "new token"]]
       /\ last' = [op |-> "refreshed", caller |-> c, deleted |-> NoRow]
  /\ UNCHANGED <<db, release, edits, handle>>

\* the fetch rejects or Linear answers with an error (a rotated refresh
\* token, an outage): the catch block of getLinearAccessToken runs
\* DELETE FROM oauth_tokens WHERE provider = 'linear' and returns null
RefreshFails ==
  /\ \E c \in Callers :
       /\ reg.calls[c].pc = "refreshing"
       /\ reg' = [reg EXCEPT !.row = NoRow,
                             !.calls[c] = [pc |-> "idle", row |-> reg.calls[c].row,
                                           result |-> "null"]]
       /\ last' = [op |-> "refresh failed", caller |-> c, deleted |-> reg.row]
  /\ UNCHANGED <<db, release, edits, handle>>

\* revokeLinearToken and clearLinearToken: DELETE FROM oauth_tokens
RevokeOrClear ==
  /\ \E op \in {"revoke", "clear"} :
       /\ reg.row # NoRow
       /\ reg' = [reg EXCEPT !.row = NoRow]
       /\ last' = [op |-> op, caller |-> "", deleted |-> reg.row]
  /\ UNCHANGED <<db, release, edits, handle>>

----------------------------------------------------------------------------

(* Specification of the routing engine: the requests of a running server   *)

\* The store of a fresh installation after the user has deleted, through
\* DELETE /api/routing, the external-hint rules of code and general and
\* the rules of the other seeded contexts.
RoutingInitDb ==
  LET fresh == CHOOSE o \in initSchema(EmptyDb) : TRUE
      kept  == {r \in Range(SeedRules) : r.context \in {"code", "general"}}
  IN [fresh.db EXCEPT !.source_rules = kept]

Init ==
  /\ db = RoutingInitDb
  /\ last = NoRequest
  /\ release = "new"
  /\ edits = 0
  /\ handle = "complete"
  /\ reg = Registry(DefaultConfig)

ToolSetRule ==
  /\ \E t \in OpTargets, why \in OpReasons : SetSourceRule(t[1], t[2], why)
  /\ UNCHANGED <<release, edits, handle, reg>>

\* a request without full access is refused before its body is looked at
Body(a, bodies, blank) == IF a = "full" THEN bodies ELSE {blank}

ApiPutRouting ==
  /\ \E a \in Access :
       \E t \in Body(a, OpTargets, <<"general", "github">>), why \in OpReasons :
         PutRouting(a, t[1], t[2], why)
  /\ UNCHANGED <<release, edits, handle, reg>>

ApiDeleteRouting ==
  /\ \E a \in Access :
       \E t \in Body(a, OpTargets, <<"general", "github">>) :
         DeleteRouting(a, t[1], t[2])
  /\ UNCHANGED <<release, edits, handle, reg>>

ApiReorderRouting ==
  /\ \E a \in Access :
       \E c \in ReorderContexts, ids \in Body(a, IdLists, <<"github">>) :
         ReorderRouting(a, c, ids)
  /\ UNCHANGED <<release, edits, handle, reg>>

ApiPutContext ==
  /\ \E a \in Access, name \in ContextParams, body \in ContextBodies :
       PutContext(a, name, body)
  /\ UNCHANGED <<release, edits, handle, reg>>

ToolGetRouting ==
  /\ \E c \in ReadContexts : GetSourceRouting(c)
  /\ UNCHANGED <<release, edits, handle, reg>>

ApiPreviewRouting ==
  /\ \E c \in ReadContexts : PreviewRouting(c)
  /\ UNCHANGED <<release, edits, handle, reg>>

Next ==
  \/ ToolSetRule
  \/ ApiPutRouting
  \/ ApiDeleteRouting
  \/ ApiReorderRouting
  \/ ApiPutContext
  \/ ToolGetRouting
  \/ ApiPreviewRouting

Spec == Init /\ [][Next]_vars

----------------------------------------------------------------------------
(* Specification of the migration sequencer: a store file from its         *)
(* creation by either release, through user requests, to later starts      *)

MigContexts == {"code", "design", "project-management"}

MigSources == {"github", "ext-linear", "gdocs"}

MigTargets == MigContexts \X MigSources

MigIdLists == UNION {[1..n -> {"github", "ext-linear"}] : n \in 1..2}

MigRegistered == {"gdocs", "linear", "writings"}

OldTargets == MigContexts \X {"github", "linear"}

OldPriorities == {1, 2}

InitMig ==
  /\ db = EmptyDb
  /\ last = NoRequest
  /\ release = "none"
  /\ edits = 0
  /\ handle = "unset"
  /\ reg = Registry(DefaultConfig)

\* a request of a running process; its getDb() finds "db" assigned and
\* returns it ("if (db) return db"), whether or not initSchema had returned
Edit ==
  /\ handle # "unset"
  /\ edits < MaxEdits
  /\ edits' = edits + 1
  /\ UNCHANGED <<release, handle, reg>>

MigSetRule ==
  /\ \E t \in MigTargets, why \in OpReasons : SetSourceRule(t[1], t[2], why)
  /\ Edit

MigDeleteRouting ==
  /\ \E t \in MigTargets : DeleteRouting("full", t[1], t[2])
  /\ Edit

MigReorderRouting ==
  /\ \E c \in MigContexts, ids \in MigIdLists : ReorderRouting("full", c, ids)
  /\ Edit

MigRegisterSource ==
  /\ \E id \in MigRegistered : RegisterSource(id, "registered by the user")
  /\ Edit

MigOldPutRouting ==
  /\ \E t \in OldTargets, p \in OldPriorities, why \in OpReasons :
       OldPutRouting("full", t[1], t[2], p, why)
  /\ Edit

MigOldDeleteRouting ==
  /\ \E t \in OldTargets : OldDeleteRouting("full", t[1], t[2])
  /\ Edit

NextMig ==
  \/ Start
  \/ StartOld
  \/ MigSetRule
  \/ MigDeleteRouting
  \/ MigReorderRouting
  \/ MigRegisterSource
  \/ MigOldPutRouting
  \/ MigOldDeleteRouting

SpecMig == InitMig /\ [][NextMig]_vars

----------------------------------------------------------------------------
(* Specification of the adapter registry: one process from its start, the  *)
(* startup calls, the sessions it creates and the adapters' upstream calls  *)

\* a store the process may open: no file yet, a fresh installation, or an
\* installation on which set-source-rule has been called
RegStores ==
  LET fresh == (CHOOSE o \in initSchema(EmptyDb) : TRUE).db
  IN {EmptyDb, fresh,
      UpsertRule(fresh, "project-management", "ext-linear", "check for docs").db}

RegConfigs == {c \in [AdapterIds -> UNION {Configs(a) : a \in AdapterIds}] :
                 \A a \in AdapterIds : c[a] \in Configs(a)}

InitReg ==
  /\ db \in RegStores
  /\ last = NoRequest
  /\ release = "new"
  /\ edits = 0
  /\ handle = "unset"
  /\ \E c \in RegConfigs : reg = [Registry(c) EXCEPT !.boot = initSchema(db)]

CreateSession == \E readOnly \in BOOLEAN : CreateServer(readOnly)

AdapterConnect == \E a \in AdapterIds : Connect(a)

AdapterListTools == \E a \in AdapterIds : ListTools(a)

AdapterListResources == \E a \in AdapterIds : ListResources(a)

NextReg ==
  \/ Prune
  \/ PreInitialize
  \/ CreateSession
  \/ AdapterConnect
  \/ AdapterListTools
  \/ AdapterListResources
  \/ Settle

SpecReg == InitReg /\ [][NextReg]_vars

\* every awaited promise of an upstream call settles, and the continuation
\* of a settled promise is run by the event loop
SpecRegFair ==
  /\ SpecReg
  /\ \A a \in AdapterIds :
       WF_vars(Connect(a)) /\ WF_vars(ListTools(a)) /\ WF_vars(ListResources(a))
  /\ WF_vars(Settle)

----------------------------------------------------------------------------
(* Specification of the use of a server: a process on a fresh installation, *)
(* its sessions, the calls of their mounted tools and resources             *)

\* the Google adapter enabled with the factory's writeTools list, with and
\* without a toolFilter; the digest adapter enabled or not
UseConfigs ==
  {c \in RegConfigs : /\ c["gdocs"].enabled
                      /\ c["gdocs"].writeTools = Given({"docs_document_create"})}

\* a store the process may open: a fresh installation, or the store an
\* earlier run of the process has synchronised, in which set-source-rule
\* has since added a rule for ext-linear and edited the reason of the rule
\* for gdocs-personal in "research"
UseStores ==
  LET fresh  == (CHOOSE o \in initSchema(EmptyDb) : TRUE).db
      all    == CHOOSE c \in RegConfigs : \A a \in AdapterIds : c[a].enabled
      synced == (CHOOSE o \in syncStore(fresh, Registry(all)) : ~o.err).db
      added  == UpsertRule(synced, "research", "ext-linear", "notes").db
  IN {fresh, UpsertRule(added, "research", "gdocs-personal", "my notes").db}

InitUse ==
  /\ db \in UseStores
  /\ last = NoRequest
  /\ release = "new"
  /\ edits = 0
  /\ handle = "unset"
  /\ \E c \in UseConfigs : reg = [Registry(c) EXCEPT !.boot = initSchema(db)]

NextUse ==
  \/ PreInitialize
  \/ CreateSession
  \/ AdapterConnect
  \/ AdapterListTools
  \/ AdapterListResources
  \/ Settle
  \/ CallMountedTool
  \/ ReadMountedResource

SpecUse == InitUse /\ [][NextUse]_vars

----------------------------------------------------------------------------
(* Specification of shutdown: the same process with calls of shutdownAll    *)
(* at any moment, for the factory's configuration with the digest adapter   *)
(* enabled or not                                                           *)

DownConfigs == {c \in RegConfigs : c["gdocs"] = DefaultConfig["gdocs"]}

InitDown ==
  /\ db = (CHOOSE o \in initSchema(EmptyDb) : TRUE).db
  /\ last = NoRequest
  /\ release = "new"
  /\ edits = 0
  /\ handle = "unset"
  /\ \E c \in DownConfigs : reg = [Registry(c) EXCEPT !.boot = initSchema(db)]

NextDown ==
  \/ NextUse
  \/ ShutdownAll
  \/ ShutdownNext

SpecDown == InitDown /\ [][NextDown]_vars

----------------------------------------------------------------------------
(* Specification of the caches: a process on a fresh installation, its      *)
(* sessions, reads of the routing guide, tool calls that resolve a source,  *)
(* and the writes of the user                                               *)

InitCache ==
  /\ db = (CHOOSE o \in initSchema(EmptyDb) : TRUE).db
  /\ last = NoRequest
  /\ release = "new"
  /\ edits = 0
  /\ handle = "unset"
  /\ reg = [Registry(DefaultConfig) EXCEPT !.boot = initSchema(db)]

NextCache ==
  \/ PreInitialize
  \/ CreateSession
  \/ AdapterConnect
  \/ AdapterListTools
  \/ AdapterListResources
  \/ Settle
  \/ ReadRoutingGuide
  \/ ToolSetSourceRule
  \/ ToolRegisterSource
  \/ ApiDeleteRule
  \/ ResolveSourceId

SpecCache == InitCache /\ [][NextCache]_vars

----------------------------------------------------------------------------
(* Specification of the audit: a process on a fresh installation, its       *)
(* sessions and the calls of their tools                                    *)

InitAudit ==
  /\ db = (CHOOSE o \in initSchema(EmptyDb) : TRUE).db
  /\ last = NoRequest
  /\ release = "new"
  /\ edits = 0
  /\ handle = "unset"
  /\ reg = [Registry(DefaultConfig) EXCEPT !.boot = initSchema(db)]

NextAudit ==
  \/ PreInitialize
  \/ CreateSession
  \/ AdapterConnect
  \/ AdapterListTools
  \/ AdapterListResources
  \/ Settle
  \/ InvokeTool

SpecAudit == InitAudit /\ [][NextAudit]_vars

----------------------------------------------------------------------------
(* Specification of failing statements: a store that an earlier run has     *)
(* synchronised, starts of the process, and the dashboard's deletions and   *)
(* reorders, with statements that throw                                     *)

InitAtomic ==
  /\ db \in UseStores
  /\ last = NoRequest
  /\ release = "new"
  /\ edits = 0
  /\ handle = "unset"
  /\ reg = Registry(DefaultConfig)

NextAtomic ==
  \/ StartUntil
  \/ Exit
  \/ DeleteRoutingUntil
  \/ ReorderRoutingUntil
  \/ AtomicSetRule

SpecAtomic == InitAtomic /\ [][NextAtomic]_vars

----------------------------------------------------------------------------
(* Specification of tool discovery: the Google adapter without a writeTools *)
(* list, its upstream giving two tools any annotations                      *)

HintCatalogs ==
  {{T("docs_document_get", h1), T("sheets_get", h2)} : h1, h2 \in Hints}

HintConfigs ==
  {c \in RegConfigs : /\ c["gdocs"].enabled /\ ~c["digest"].enabled
                      /\ ~c["gdocs"].writeTools.given}

InitHints ==
  /\ db = (CHOOSE o \in initSchema(EmptyDb) : TRUE).db
  /\ last = NoRequest
  /\ release = "new"
  /\ edits = 0
  /\ handle = "unset"
  /\ \E c \in HintConfigs :
       reg = [Registry(c) EXCEPT !.boot = initSchema(db),
                                 !.upstream["gdocs"] = HintCatalogs]

NextHints ==
  \/ PreInitialize
  \/ CreateSession
  \/ AdapterConnect
  \/ AdapterListTools
  \/ AdapterListResources
  \/ Settle

SpecHints == InitHints /\ [][NextHints]_vars

----------------------------------------------------------------------------
(* Specification of authentication: a server with any configuration of the  *)
(* two tokens, and the requests that reach its two middlewares              *)

InitAuth ==
  /\ db = EmptyDb
  /\ \E c \in AuthConfigs :
       last = [op |-> "none", config |-> c,
               request |-> [queryToken |-> "", authorization |-> Authorization("", ""),
                            cfAccess |-> "", cookieToken |-> ""],
               granted |-> "none"]
  /\ release = "new"
  /\ edits = 0
  /\ handle = "unset"
  /\ reg = Registry(DefaultConfig)

NextAuth ==
  \/ McpRequest
  \/ DashboardRequest

SpecAuth == InitAuth /\ [][NextAuth]_vars

----------------------------------------------------------------------------
(* Specification of the HTTP sessions: clients that initialize sessions,    *)
(* use and delete them, transports that close, the sweep and the clock      *)

InitSessions ==
  /\ db = EmptyDb
  /\ last = [op |-> "none", id |-> NoSessionId, status |-> ""]
  /\ release = "new"
  /\ edits = 0
  /\ handle = "unset"
  /\ reg = HttpServer

NextSessions ==
  \/ McpPost
  \/ McpGet
  \/ McpDelete
  \/ TransportClose
  \/ SweepSessions
  \/ Tick

SpecSessions == InitSessions /\ [][NextSessions]_vars

----------------------------------------------------------------------------
(* Specification of the OAuth state store: browsers that start the flow,    *)
(* callbacks with any query, the sweep and the clock                        *)

InitOAuth ==
  /\ db = EmptyDb
  /\ last = [op |-> "none", id |-> {}, status |-> ""]
  /\ release = "new"
  /\ edits = 0
  /\ handle = "unset"
  /\ reg = OAuthServer

OAuthTick ==
  /\ reg.clock + ClockStep <= MaxClock
  /\ reg' = [reg EXCEPT !.clock = @ + ClockStep]
  /\ last' = [op |-> "tick", id |-> {}, status |-> ""]
  /\ UNCHANGED <<db, release, edits, handle>>

NextOAuth ==
  \/ AuthLinear
  \/ AuthLinearCallback
  \/ SweepStates
  \/ OAuthTick

SpecOAuth == InitOAuth /\ [][NextOAuth]_vars

----------------------------------------------------------------------------
(* Specification of restarts: a store an earlier run has synchronised, the  *)
(* user's reorder requests, and restarts of the process with the same       *)
(* configuration                                                            *)

\* reorder requests served
MaxReorders == 2

RestartContexts == {"code", "research"}

\* the sourceIds array the dashboard sends when the user drags the i-th rule
\* of a context to the top
MoveToFront(ord, i) ==
  <<ord[i].source_id>> \o
  [j \in 1..(Len(ord) - 1) |-> ord[IF j < i THEN j ELSE j + 1].source_id]

\* the store after the first run of a process with the registry r
SyncedStore(r) ==
  {o.db : o \in UNION {syncStore(b.db, r) : b \in {x \in initSchema(EmptyDb) : ~x.err}}}

InitRestart ==
  /\ last = NoRequest
  /\ release = "new"
  /\ edits = 0
  /\ handle = "complete"
  /\ \E c \in UseConfigs : reg = Registry(c)
  /\ db \in SyncedStore(reg)

UserReorder ==
  /\ edits < MaxReorders
  /\ \E context \in RestartContexts :
       \E ord \in OrderByPriority(RulesOf(db, context)) :
         \E i \in DOMAIN ord : ReorderRouting("full", context, MoveToFront(ord, i))
  /\ edits' = edits + 1
  /\ UNCHANGED <<release, handle, reg>>

\* the process exits; the next one runs getDb (initSchema) and then
\* ensureInitialized, whose syncSourcesToDb runs with the same enabled
\* adapters
Restart ==
  /\ \E b \in initSchema(db) :
       IF b.err
         THEN /\ db' = b.db
              /\ last' = [NoRequest EXCEPT !.op = "restart", !.status = "threw", !.pre = db]
         ELSE \E o \in syncStore(b.db, reg) :
                /\ db' = o.db
                /\ last' = [NoRequest EXCEPT !.op = "restart", !.pre = db,
                                             !.status = IF o.err THEN "threw" ELSE "ok"]
  /\ UNCHANGED <<release, edits, handle, reg>>

NextRestart ==
  \/ UserReorder
  \/ Restart

SpecRestart == InitRestart /\ [][NextRestart]_vars

----------------------------------------------------------------------------
(* Specification of the Linear token: the OAuth exchange, expiry, calls of  *)
(* getLinearAccessToken that may overlap, revoke and clear                  *)

InitToken ==
  /\ db = EmptyDb
  /\ last = [op |-> "none", caller |-> "", deleted |-> NoRow]
  /\ release = "new"
  /\ edits = 0
  /\ handle = "unset"
  /\ reg = TokenStore

NextToken ==
  \/ ExchangeCodeForToken
  \/ Expire
  \/ GetLinearAccessToken
  \/ RefreshSucceeds
  \/ RefreshFails
  \/ RevokeOrClear

SpecToken == InitToken /\ [][NextToken]_vars

----------------------------------------------------------------------------

(* Properties *)

SetOps == {"set-source-rule", "PUT /api/routing"}

ReadOps == {"get-source-routing", "POST /api/routing/preview"}

Accepted == last.status \in {"ok", "200"}

\* the rules outside one context
Outside(d, context) == {r \in d.source_rules : r.context # context}

\* a table with the priorities blanked
WithoutPriority(rules) == {[r EXCEPT !.priority = 0] : r \in rules}

\* the priority of the rule of (context, source id); 0 when there is none
PriorityOf(d, context, source_id) ==
  IF RuleAt(d, context, source_id) = {} THEN 0
  ELSE (CHOOSE r \in RuleAt(d, context, source_id) : TRUE).priority

\* the rules of a context carry exactly the priorities 1..N
Dense(d, context) ==
  /\ Priorities(d, context) = 1..Cardinality(RulesOf(d, context))
  /\ Cardinality(Priorities(d, context)) = Cardinality(RulesOf(d, context))

\* C1: in every store reached from a compacted one by rule insertions,
\* deletions and reorders, the priorities of each context's rules are
\* exactly 1..N, N the number of its rules.
C1_PrioritiesDense ==
  \A c \in ContextsOf(db.source_rules) : Dense(db, c)

\* C1 witness: the first of three rules has just been deleted, in a store
\* that also holds a rule inserted into a context no seed knows.
C1_Witness ==
  /\ last.op = "DELETE /api/routing" /\ last.status = "200"
  /\ Cardinality(RulesOf(last.pre, last.context)) = 3
  /\ PriorityOf(last.pre, last.context, last.sourceId) = 1
  /\ RulesOf(db, "marketing") # {}

\* C2: an accepted reorder of N rules runs its 2N UPDATEs to the end, none
\* is refused by UNIQUE(context, priority), and after each of them no two
\* rules of a context hold the same priority.
C2_ReorderNeverTies ==
  (last.op = "POST /api/routing/reorder" /\ last.status \notin {"400", "403"}) =>
    /\ last.status = "200"
    /\ Len(last.log) = 2 * Len(last.sourceIds)
    /\ \A i \in DOMAIN last.log : UniquePriorities(last.log[i])

\* C2 witness: three rules were reordered so that the last became the first.
C2_Witness ==
  /\ last.op = "POST /api/routing/reorder" /\ last.status = "200"
  /\ Len(last.sourceIds) = 3
  /\ PriorityOf(last.pre, last.context, last.sourceIds[1]) = 3
  /\ Len(last.log) = 6

\* the submitted list names every source with a rule in the context once
ExactSet(d, context, sourceIds) ==
  /\ Range(sourceIds) = {r.source_id : r \in RulesOf(d, context)}
  /\ \A i, j \in DOMAIN sourceIds : sourceIds[i] = sourceIds[j] => i = j

\* C3: a reorder whose list is not exactly the set of sources with a rule in
\* the context is answered 400 and leaves the store as it was.
C3_BadReorderRejected ==
  (/\ last.op = "POST /api/routing/reorder"
   /\ last.access = "full"
   /\ ~ExactSet(last.pre, last.context, last.sourceIds)) =>
    (last.status = "400" /\ db = last.pre)

\* C3 witness: a list of the right length that repeats one source and omits
\* another was rejected for a context of three rules.
C3_Witness ==
  /\ last.op = "POST /api/routing/reorder" /\ last.status = "400"
  /\ Len(last.sourceIds) = 3
  /\ Cardinality(RulesOf(last.pre, last.context)) = 3
  /\ Cardinality(Range(last.sourceIds)) = 2
  /\ Range(last.sourceIds) \subseteq {r.source_id : r \in RulesOf(last.pre, last.context)}

\* C4: after an accepted reorder the rule of the i-th submitted source has
\* priority i (counting from 1); the rules of other contexts, the set of
\* (context, source) pairs and every reason are as before.
C4_ReorderEffect ==
  (last.op = "POST /api/routing/reorder" /\ last.status = "200") =>
    /\ \A i \in DOMAIN last.sourceIds :
         PriorityOf(db, last.context, last.sourceIds[i]) = i
    /\ Outside(db, last.context) = Outside(last.pre, last.context)
    /\ WithoutPriority(db.source_rules) = WithoutPriority(last.pre.source_rules)
    /\ db.sources = last.pre.sources /\ db.contexts = last.pre.contexts

\* C4 witness: an accepted reorder of three rules that moved every rule.
C4_Witness ==
  /\ last.op = "POST /api/routing/reorder" /\ last.status = "200"
  /\ Len(last.sourceIds) = 3
  /\ \A i \in DOMAIN last.sourceIds :
       PriorityOf(last.pre, last.context, last.sourceIds[i]) # i

\* C5: an accepted set-source-rule / PUT /api/routing changes only the
\* reason of an existing rule of (context, source); otherwise it adds one
\* rule, at the highest priority of the context plus one (1 when the
\* context has no rule), and leaves every other rule as it was.
C5_SetRuleUpsert ==
  (last.op \in SetOps /\ Accepted) =>
    LET old == RuleAt(last.pre, last.context, last.sourceId)
        new == RuleAt(db, last.context, last.sourceId)
        ps  == Priorities(last.pre, last.context)
    IN /\ db.source_rules \ new = last.pre.source_rules \ old
       /\ Cardinality(new) = 1
       /\ \A r \in new : r.reason = last.reason
       /\ \A r \in new, k \in old : r.priority = k.priority
       /\ (old = {}) =>
            \A r \in new :
              /\ ps = {} => r.priority = 1
              /\ ps # {} => (r.priority - 1 \in ps /\ \A q \in ps : q < r.priority)

\* C5 witness: a rule was added to a context whose highest priority was 2
\* and got priority 3.
C5_Witness ==
  /\ last.op \in SetOps /\ Accepted
  /\ RuleAt(last.pre, last.context, last.sourceId) = {}
  /\ Priorities(last.pre, last.context) = {1, 2}
  /\ PriorityOf(db, last.context, last.sourceId) = 3

\* C6: a set-source-rule / PUT /api/routing naming a source without a row in
\* sources is answered with an error and writes nothing.
C6_UnknownSourceRejected ==
  (/\ last.op \in SetOps
   /\ last.sourceId # ""
   /\ last.sourceId \notin SourceIds(last.pre)) =>
    (last.status \in {"isError", "404"} /\ db = last.pre)

\* C6 witness: the tool was called for an unknown source and a context that
\* has no context record, and still has none.
C6_Witness ==
  /\ last.op = "set-source-rule" /\ last.status = "isError"
  /\ last.sourceId \notin SourceIds(last.pre)
  /\ last.context \notin ContextNames(last.pre)
  /\ last.context \notin ContextNames(db)

\* C7: DELETE /api/routing of an existing rule removes that rule alone,
\* leaves the other rules of its context at 1..N-1 in their former order
\* and does not touch another context; of a missing rule it answers 404 and
\* changes nothing.
C7_DeleteCompacts ==
  (last.op = "DELETE /api/routing" /\ last.sourceId # "") =>
    LET old == RuleAt(last.pre, last.context, last.sourceId)
    IN IF old = {}
         THEN last.status = "404" /\ db = last.pre
         ELSE /\ last.status = "200"
              /\ WithoutPriority(db.source_rules) =
                   WithoutPriority(last.pre.source_rules \ old)
              /\ Outside(db, last.context) = Outside(last.pre, last.context)
              /\ Dense(db, last.context)
              /\ \A r1, r2 \in RulesOf(db, last.context) :
                   (r1.priority < r2.priority) =>
                     PriorityOf(last.pre, last.context, r1.source_id) <
                       PriorityOf(last.pre, last.context, r2.source_id)
              /\ db.sources = last.pre.sources /\ db.contexts = last.pre.contexts

\* C7 witness: the second of three rules was deleted.
C7_Witness ==
  /\ last.op = "DELETE /api/routing" /\ last.status = "200"
  /\ Cardinality(RulesOf(last.pre, last.context)) = 3
  /\ PriorityOf(last.pre, last.context, last.sourceId) = 2
  /\ Priorities(db, last.context) = {1, 2}

\* C8: when the only rule of a context has been deleted and the next
\* request adds a rule of another source to that context, the new rule has
\* priority 1.
C8_ReaddAtOne ==
  (/\ last.op \in SetOps /\ Accepted
   /\ last.emptied # <<>>
   /\ last.emptied[1] = last.context
   /\ last.emptied[2] # last.sourceId) =>
    PriorityOf(db, last.context, last.sourceId) = 1

\* C8 witness: such a delete followed by such an insertion.
C8_Witness ==
  /\ last.op \in SetOps /\ Accepted
  /\ last.emptied # <<>>
  /\ last.emptied[1] = last.context
  /\ last.emptied[2] # last.sourceId
  /\ RulesOf(db, last.context) # {}

\* the rows are exactly the given rules, in ascending priority
AscendingRowsOf(rows, rules) ==
  /\ Range(rows) = rules
  /\ Len(rows) = Cardinality(rules)
  /\ \A i, j \in DOMAIN rows : i < j => rows[i].priority < rows[j].priority

\* C9: a routing query answers with the rules of the asked context in
\* ascending priority; when it has none, with those of general; when general
\* has none either, with no rule.  The rows are of one context and the store
\* is not written.
C9_RoutingFallback ==
  (last.op \in ReadOps /\ Accepted) =>
    LET exact   == RulesOf(last.pre, last.context)
        general == RulesOf(last.pre, "general")
    IN /\ db = last.pre
       /\ exact # {} => (last.kind = "exact" /\ AscendingRowsOf(last.rows, exact))
       /\ (exact = {} /\ general # {}) =>
            (last.kind = "fallback" /\ AscendingRowsOf(last.rows, general))
       /\ (exact = {} /\ general = {}) => (last.kind = "none" /\ last.rows = <<>>)
       /\ \A i, j \in DOMAIN last.rows : last.rows[i].context = last.rows[j].context

\* C9 witness: a query for a context without rules was answered with the
\* two or more rules of general, while another context has rules of its own.
C9_Witness ==
  /\ last.op = "get-source-routing" /\ last.kind = "fallback"
  /\ last.context = "marketing"
  /\ Len(last.rows) >= 2
  /\ RulesOf(db, "code") # {}

\* C10: once initSchema has run, running it again changes nothing: every
\* outcome of a second run is the store the first run left.
C10_MigrationIdempotent ==
  (last.op = "initSchema") => \A o \in initSchema(db) : o.db = db

\* C10 witness: initSchema ran on a store that the earlier release seeded
\* and the user then edited, and changed it.
C10_Witness ==
  /\ last.op = "initSchema" /\ last.status = "ok"
  /\ last.pre.schema = "legacy"
  /\ edits > 0
  /\ db # last.pre

\* the sources a run of initSchema removed from the store
RemovedSources == SourceIds(last.pre) \ SourceIds(db)

\* the contexts that had a rule of the source before the run
ReferencedBy(source_id) ==
  {r.context : r \in {k \in last.pre.source_rules : k.source_id = source_id}}

\* C11: when a completed run of initSchema has removed a source, no rule of
\* that source remains and every context that had a rule of it carries the
\* priorities 1..N, without a gap.
C11_RemovalCompacts ==
  (last.op = "initSchema" /\ last.status = "ok") =>
    \A s \in RemovedSources :
      /\ \A r \in db.source_rules : r.source_id # s
      /\ \A c \in ReferencedBy(s) : Dense(db, c)

\* the values the model's requests write: none of them is a value an
\* earlier release seeded
UserReasons == OpReasons

UserDescriptions == {"registered by the user"}

\* C12: a completed run of initSchema leaves every reason and every source
\* description that a user request wrote as it was, as long as its row is
\* still in the store.
C12_UserEditsKept ==
  (last.op = "initSchema" /\ last.status = "ok") =>
    /\ \A r \in last.pre.source_rules :
         (r.reason \in UserReasons /\ RuleAt(db, r.context, r.source_id) # {}) =>
           \A k \in RuleAt(db, r.context, r.source_id) : k.reason = r.reason
    /\ \A s \in last.pre.sources :
         (s.description \in UserDescriptions /\ s.id \in SourceIds(db)) =>
           s \in db.sources

\* a context of the table in which two rules share a priority
HasTie(d) ==
  \E r1, r2 \in d.source_rules :
    r1 # r2 /\ r1.context = r2.context /\ r1.priority = r2.priority

\* a context of the table whose priorities are distinct but not 1..N
HasGap(d) ==
  \E c \in ContextsOf(d.source_rules) :
    UniquePriorities(RulesOf(d, c)) /\ ~Dense(d, c)

\* C13: when initSchema ran on a store of the earlier release, its
\* constraint migration did not throw whatever ties and gaps the table had:
\* every outcome has UNIQUE(context, priority) in place, every context at
\* 1..N, and the same rules apart from their priorities.
C13_ConstraintMigrationSucceeds ==
  (last.op = "initSchema" /\ last.pre.schema = "legacy") =>
    /\ last.status = "ok" /\ db.schema = "current"
    /\ \A o \in migrateSourceRulesConstraint(Ok(last.pre)) :
         /\ ~o.err
         /\ o.db.schema = "current"
         /\ WithoutPriority(o.db.source_rules) =
              WithoutPriority(last.pre.source_rules)
         /\ Cardinality(o.db.source_rules) = Cardinality(last.pre.source_rules)
         /\ \A c \in ContextsOf(o.db.source_rules) : Dense(o.db, c)
         /\ o.db.sources = last.pre.sources

\* C13 witness: initSchema ran on a legacy table in which one context had
\* two rules at the same priority and another had a gap.
C13_Witness ==
  /\ last.op = "initSchema" /\ last.status = "ok"
  /\ last.pre.schema = "legacy"
  /\ HasTie(last.pre)
  /\ HasGap(last.pre)

\* the requests that read or write the routing tables through getDb()
RoutingOps ==
  SetOps \cup ReadOps \cup
  {"DELETE /api/routing", "POST /api/routing/reorder", "register-source"}

\* C14: no routing request is served by a process whose initSchema threw:
\* whenever a request has been served, the handle it got from getDb() is
\* one whose migration sequence completed.
C14_NoRequestAfterFailedMigration ==
  (last.op \in RoutingOps) => handle = "complete"

----------------------------------------------------------------------------
(* Adapter registry *)

\* C18: when an adapter's configuration has a writeTools list, every tool
\* it discovered is a write tool exactly when its name is in that list,
\* whatever hints the upstream sent with it.
C18_WriteToolsListDecides ==
  \A a \in AdapterIds :
    reg.config[a].writeTools.given =>
      \A t \in reg.tools[a] :
        t.isWrite <=> t.name \in reg.config[a].writeTools.names

\* a listed tool the upstream calls read-only and an unlisted tool the
\* upstream calls destructive have been discovered
C18_Witness ==
  \E a \in AdapterIds :
    /\ reg.config[a].writeTools.given
    /\ \E t \in reg.tools[a] : t.hint = "readOnly" /\ t.isWrite
    /\ \E t \in reg.tools[a] : t.hint = "destructive" /\ ~t.isWrite

\* C16: however many times ensureInitialized is called, one after another
\* or while an earlier call is still awaiting, its body runs once:
\* initialize() is called once on each enabled adapter once the latch is
\* set, never twice, never on a disabled adapter, and syncSourcesToDb runs
\* at most once.
C16_InitializedOnce ==
  /\ \A a \in AdapterIds :
       /\ reg.inits[a] <= 1
       /\ a \notin Enabled(reg) => reg.inits[a] = 0 /\ reg.pc[a] = "idle"
       /\ (reg.initialized /\ a \in Enabled(reg)) => reg.inits[a] = 1
  /\ reg.syncs <= 1
  /\ reg.run = "returned" => reg.syncs = 1

\* a second call arrived while the first was awaiting the adapters, got its
\* server at once, and the first call has since returned; one adapter is
\* enabled and the other is not
C16_Witness ==
  /\ reg.calls = 2
  /\ reg.session.built /\ ~reg.session.readOnly /\ reg.session.run = "awaiting"
  /\ reg.run = "returned" /\ reg.syncs = 1
  /\ \E a, b \in AdapterIds :
       a \in Enabled(reg) /\ reg.inits[a] = 1 /\ b \notin Enabled(reg)

\* the write tools the adapters hold, whether or not a server has them
AdapterWriteTools(r) ==
  {<<a, t.name>> : <<a, t>> \in {<<a, t>> \in AdapterIds \X UNION {r.tools[b] : b \in AdapterIds} :
                                  /\ a \in Enabled(r)
                                  /\ t \in getTools(r.config[a], r.tools[a])
                                  /\ t.isWrite}}

\* C17: a server built for a read-only session has no write tool: none of
\* save-bookmark, delete-bookmark, set-source-rule, register-source, and no
\* adapter tool with isWrite true; and registerOnServer called with
\* readOnly true mounts no tool with isWrite true, whatever the adapters
\* discovered and whenever the session is created.
C17_ReadOnlyHasNoWriteTool ==
  /\ (reg.session.built /\ reg.session.readOnly) =>
       /\ reg.session.native \cap NativeWriteTools = {}
       /\ \A t \in reg.session.tools : ~t.isWrite
  /\ \A t \in registerOnServer(reg, TRUE).tools : ~t.isWrite

\* a read-only session was created after the adapters had discovered write
\* tools that a full session gets, and it still has its read tools
C17_Witness ==
  /\ reg.session.built /\ reg.session.readOnly
  /\ reg.run = "returned"
  /\ AdapterWriteTools(reg) # {}
  /\ \E t \in registerOnServer(reg, FALSE).tools : t.isWrite
  /\ reg.session.native = NativeReadTools

\* the adapters whose health record is "down"
DownAdapters == {reg.health[i].adapterId : i \in {j \in DOMAIN reg.health : reg.health[j].status = "down"}}

\* C19: an adapter whose health record is "down" contributes nothing: its
\* getTools() and getResources() are empty, no server has a tool or a
\* resource of it, and its persisted source row lists no tool and no
\* resource.
C19_DownContributesNothing ==
  \A a \in DownAdapters :
    /\ getTools(reg.config[a], reg.tools[a]) = {}
    /\ reg.resources[a] = {}
    /\ \A t \in reg.session.tools : t.adapter # a
    /\ \A u \in reg.session.resources : u.adapter # a
    /\ reg.rows[a].tools = {} /\ reg.rows[a].resources = {}

\* the health records logged for an adapter
RecordsOf(a) == {i \in DOMAIN reg.health : reg.health[i].adapterId = a}

ToolsOfCompleted ==
  {[adapter |-> a, name |-> t.name, isWrite |-> t.isWrite,
    mounted |-> Prefixed(a, t.name)] :
     <<a, t>> \in {<<a, t>> \in AdapterIds \X UNION {reg.tools[b] : b \in AdapterIds} :
                    /\ a \in Enabled(reg) /\ reg.pc[a] = "completed"
                    /\ t \in getTools(reg.config[a], reg.tools[a])}}

\* C15: when the initialize() of an enabled adapter has failed, the call of
\* ensureInitialized still returns, without throwing; by then every other
\* enabled adapter has run its initialize() to its end, and registerOnServer
\* from then on mounts, for a session with full access, every tool of the
\* adapters that initialized.
C15_FaultIsolation ==
  (\E a \in Enabled(reg) : reg.pc[a] = "threw")
    ~> /\ reg.run = "returned"
       /\ \A a \in Enabled(reg) : reg.pc[a] \in {"completed", "threw"}
       /\ ToolsOfCompleted \subseteq registerOnServer(reg, FALSE).tools
       /\ (reg.session.built /\ ~reg.session.readOnly /\ reg.session.run = "returned")
            => ToolsOfCompleted \subseteq reg.session.tools

\* one adapter failed at connect, the other initialized with a tool, the
\* call returned, and a server built afterwards has that tool
C15_Witness ==
  /\ reg.run = "returned"
  /\ \E a, b \in Enabled(reg) :
       /\ reg.pc[a] = "threw" /\ reg.tools[a] = {}
       /\ reg.pc[b] = "completed"
       /\ \E t \in reg.session.tools : t.adapter = b
  /\ reg.session.built /\ ~reg.session.readOnly /\ reg.session.run = "returned"

----------------------------------------------------------------------------
(* Mounted tools and resources *)

\* C21: a call of a mounted adapter tool never ends in an exception: when
\* adapter.callTool throws (the upstream call failed, or the adapter had no
\* client), the caller gets a result with isError true whose text names the
\* prefixed tool name and carries the error's message; when it does not
\* throw, the caller gets the upstream's result as it is.
C21_ToolCallNeverThrows ==
  reg.call.kind = "tool" =>
    /\ reg.call.outcome = "result"
    /\ reg.call.upstream = "threw" =>
         /\ reg.call.isError
         /\ reg.call.text = "Error calling " \o reg.call.mounted \o ": " \o reg.call.answer.text
    /\ reg.call.upstream = "notCalled" =>
         /\ reg.call.isError
         /\ reg.call.text = "Error calling " \o reg.call.mounted \o ": " \o
                            NotInitialized(reg.call.adapter)
    /\ reg.call.upstream = "returned" =>
         /\ reg.call.isError = reg.call.answer.isError
         /\ reg.call.text = reg.call.answer.text

\* the upstream call of a mounted tool threw and the caller got an error
\* result
C21_Witness ==
  /\ reg.call.kind = "tool"
  /\ reg.call.upstream = "threw"
  /\ reg.call.outcome = "result" /\ reg.call.isError
  /\ reg.call.mounted = "gdocs-docs_document_create"

\* C22: a read of a mounted adapter resource never ends in an exception:
\* when the upstream read fails the caller gets a structured error result.
C22_ResourceReadNeverThrows ==
  reg.call.kind = "resource" => reg.call.outcome = "result"

\* C23: for an adapter with a toolFilter, every tool it exposes has its
\* original name in the list: the tools getTools() returns, the tools a
\* server has mounted for it, and the tool names in its source row (and in
\* the rows of the Google adapter's logical sources); every mounted adapter
\* tool is named prefix + original name, and a call of it reaches the
\* upstream under the original name.
C23_AllowListNarrows ==
  /\ \A a \in AdapterIds :
       reg.config[a].toolFilter.given =>
         /\ \A t \in getTools(reg.config[a], reg.tools[a]) :
              t.name \in reg.config[a].toolFilter.names
         /\ \A t \in reg.session.tools :
              t.adapter = a => t.name \in reg.config[a].toolFilter.names
         /\ \A s \in {a} \cup (IF a = "gdocs" THEN LogicalIds ELSE {}) :
              \A n \in reg.rows[s].tools :
                \E m \in reg.config[a].toolFilter.names : n = Prefixed(a, m)
  /\ \A t \in reg.session.tools : t.mounted = Prefixed(t.adapter, t.name)
  /\ (reg.call.kind = "tool" /\ reg.call.upstream # "notCalled") =>
       reg.call.mounted = Prefixed(reg.call.adapter, reg.call.sent)

\* the Google adapter has a toolFilter and discovered a tool outside it; a
\* server has its listed tools mounted, its source row is written, and a
\* call of gdocs-docs_document_get reached the upstream as docs_document_get
C23_Witness ==
  /\ reg.config["gdocs"].toolFilter.given
  /\ \E t \in reg.tools["gdocs"] : t.name = "sheets_get"
  /\ \E t \in reg.session.tools : t.mounted = "gdocs-docs_document_create"
  /\ reg.rows["gdocs"].written /\ reg.rows["gdocs"].tools # {}
  /\ reg.call.kind = "tool" /\ reg.call.mounted = "gdocs-docs_document_get"
  /\ reg.call.sent = "docs_document_get"

----------------------------------------------------------------------------
(* Synchronisation of the adapters' sources and rules *)

\* the (context, source) pairs syncSourcesToDb has a rule for
SyncedRules == {<<rule[1], rule[2], rule[3]>> :
                  rule \in {GdocsRules[i] : i \in DOMAIN GdocsRules}
                           \cup {DigestRules[i] : i \in DOMAIN DigestRules}}

\* C24: syncSourcesToDb never changes the priority of a rule that exists:
\* every rule of the store before the synchronisation is in the store after
\* it with the same context, source and priority, and with the same reason
\* unless it is one of the adapters' rules, whose reason is rewritten; a
\* rule that was missing is one of the adapters' rules and is put after
\* the highest priority of its context.
C24_SyncKeepsPriorities ==
  [][(handle # "unset" /\ reg'.syncs = reg.syncs + 1) =>
       /\ \A r \in db.source_rules :
            \E n \in db'.source_rules :
              /\ n.context = r.context /\ n.source_id = r.source_id
              /\ n.priority = r.priority
              /\ \/ n.reason = r.reason
                 \/ <<n.context, n.source_id, n.reason>> \in SyncedRules
       /\ \A n \in db'.source_rules :
            RuleAt(db, n.context, n.source_id) = {} =>
              /\ <<n.context, n.source_id, n.reason>> \in SyncedRules
              /\ n.priority = MaxPriority(db, n.context)
                   + Cardinality({m \in RulesOf(db', n.context) :
                                    /\ RuleAt(db, m.context, m.source_id) = {}
                                    /\ m.priority <= n.priority})]_vars

\* a synchronisation has run on the store of an earlier run: the rule for
\* gdocs-personal in "research" has the adapters' reason again and is still
\* at priority 6, before the rule set-source-rule added at priority 8
C24_Witness ==
  /\ reg.syncs = 1
  /\ \E r \in RuleAt(db, "research", "gdocs-personal") :
       /\ r.priority = 6
       /\ <<r.context, r.source_id, r.reason>> \in SyncedRules
  /\ \E r \in RuleAt(db, "research", "ext-linear") : r.priority = 8

----------------------------------------------------------------------------
(* Caches *)

\* C25: the routing guide cache is never stale: whenever a text is cached,
\* it is the text buildRoutingGuide() gives for the store as it is now.
C25_RoutingCacheFresh ==
  reg.routingCacheText.cached =>
    reg.routingCacheText = buildRoutingGuide(db, reg)

\* C26: after register-source or a synchronisation of the adapters,
\* resolveSourceId(tool) returns a source whose tools column holds the tool
\* now, for every tool some source lists.
C26_SourceMapFresh ==
  (reg.resolved.after # "none" /\ reg.resolved.tool # "") =>
    IF \E s \in SourceIds(db) : reg.resolved.tool \in ToolsColumn(db, reg)[s]
      THEN /\ reg.resolved.id \in SourceIds(db)
           /\ reg.resolved.tool \in ToolsColumn(db, reg)[reg.resolved.id]
      ELSE reg.resolved.id = "null"

----------------------------------------------------------------------------
(* Shutdown *)

\* the attempt a round of the loop of shutdownAll has just recorded
Attempted == reg'.closing.attempts[Len(reg'.closing.attempts)]

\* C27: shutdown() is idempotent: called on an adapter whose client is null
\* (never initialized, or shut down before) it does nothing and does not
\* throw, and a shutdown whose close() returned leaves the client null; a
\* tool call or resource read of an adapter whose client is null does not
\* reach the upstream and fails with "Adapter <id> not initialized".
C27_ShutdownIdempotent ==
  [][/\ Len(reg'.closing.attempts) = Len(reg.closing.attempts) + 1 =>
          /\ reg.client[Attempted.adapter] = "null" =>
               Attempted.did = "noop" /\ reg'.client = reg.client
          /\ Attempted.did = "closed" => reg'.client[Attempted.adapter] = "null"
     /\ (reg'.call # reg.call /\ reg.client[reg'.call.adapter] = "null") =>
          /\ reg'.call.upstream = "notCalled"
          /\ reg'.call.sent = ""
          /\ IF reg'.call.kind = "tool"
               THEN /\ reg'.call.isError
                    /\ reg'.call.text = "Error calling " \o reg'.call.mounted \o ": "
                                          \o NotInitialized(reg'.call.adapter)
             ELSE /\ reg'.call.outcome = "exception"
                  /\ reg'.call.text = NotInitialized(reg'.call.adapter)]_vars

\* the Google adapter was initialized and closed by the first shutdownAll;
\* the second shutdownAll found its client null and did nothing, and a call
\* of one of its tools then failed without reaching the upstream
C27_Witness ==
  /\ reg.closing.starts = 2
  /\ reg.inits["gdocs"] = 1 /\ reg.client["gdocs"] = "null"
  /\ \E i \in DOMAIN reg.closing.attempts :
       reg.closing.attempts[i] = [adapter |-> "gdocs", before |-> "null", did |-> "noop"]
  /\ reg.call.kind = "tool" /\ reg.call.adapter = "gdocs"
  /\ reg.call.upstream = "notCalled"

\* C28: shutdownAll() attempts shutdown() on every registered adapter, in
\* order, also after an earlier adapter's shutdown threw, and never throws:
\* when it is over it has returned and made one attempt per adapter.
C28_ShutdownAllBestEffort ==
  /\ reg.closing.result # "threw"
  /\ (reg.closing.starts > 0 /\ reg.closing.pos = 0) =>
       /\ reg.closing.result = "returned"
       /\ Len(reg.closing.attempts) = Len(AdapterOrder)
       /\ \A i \in DOMAIN AdapterOrder :
            reg.closing.attempts[i].adapter = AdapterOrder[i]

\* shutdownAll has returned after the shutdown of the first adapter threw
\* and the shutdown of the second one closed its client
C28_Witness ==
  /\ reg.closing.result = "returned"
  /\ Len(reg.closing.attempts) = 2
  /\ reg.closing.attempts[1].did = "threw"
  /\ reg.closing.attempts[2].did = "closed"

----------------------------------------------------------------------------
(* Audit of tool calls *)

\* C29: every call of a tool of an instrumented server makes exactly one
\* attempt to log it, under the tool's name, with status "error" exactly
\* when the handler threw or returned an isError result; the caller gets
\* what the handler returned, or the exception it threw, whether or not the
\* log row could be stored.
C29_OneLogPerCall ==
  reg.audit.invocations > 0 =>
    /\ Len(reg.audit.last.attempts) = 1
    /\ reg.audit.last.attempts[1].toolName = reg.audit.last.toolName
    /\ reg.audit.last.attempts[1].status = "error" <=>
         (reg.audit.last.handled.kind = "exception" \/ reg.audit.last.handled.isError)
    /\ reg.audit.last.outcome = reg.audit.last.handled
    /\ reg.audit.stored <= reg.audit.invocations

\* a native tool threw and the log row could not be stored: the caller got
\* the handler's exception; before it, a call was logged
C29_Witness ==
  /\ reg.audit.invocations = 2 /\ reg.audit.stored = 1
  /\ reg.audit.last.toolName = "set-source-rule"
  /\ reg.audit.last.handled.kind = "exception"
  /\ ~reg.audit.last.attempts[1].stored
  /\ reg.audit.last.attempts[1].status = "error"
  /\ reg.audit.last.outcome.kind = "exception"

----------------------------------------------------------------------------
(* Statements that fail *)

\* C30: a priority compaction, a reorder or a migration step in which a
\* statement failed has left the store exactly as it was before it began.
C30_AllOrNothing ==
  (last.status = "threw" /\
   last.op \in {"compactPriorities", "reorder", "migrateRemoveOrphanGdocsSourceV5"}) =>
    db = last.pre

\* a priority compaction or a reorder in which a statement failed has left
\* the store exactly as it was before it began
TransactionsAllOrNothing ==
  (last.status = "threw" /\ last.op \in {"compactPriorities", "reorder"}) =>
    db = last.pre

----------------------------------------------------------------------------
(* Classification of discovered tools *)

----------------------------------------------------------------------------
(* Authentication *)

\* the request presents the token: as ?token=, as a Bearer credential, or
\* (to the dashboard) as the cookie robin_token
Presents(q, token) ==
  /\ token # ""
  /\ \/ q.queryToken = token
     \/ q.authorization = Authorization("Bearer", token)
     \/ q.cookieToken = token

\* with a token configured, a request has full access only if it presents
\* the full-access token, and a request that does not, but presents the
\* read-only token to /mcp or carries a Cloudflare Access header, is
\* read-only
TokensDecide ==
  (last.op # "none" /\ (last.config.authToken # "" \/ last.config.readonlyToken # "")) =>
    /\ last.granted = "full" => Presents(last.request, last.config.authToken)
    /\ (/\ ~Presents(last.request, last.config.authToken)
        /\ \/ last.op = "/mcp" /\ Presents(last.request, last.config.readonlyToken)
           \/ last.request.cfAccess # "") => last.granted = "readonly"

\* C32: with neither token configured every /mcp request has full access,
\* whatever headers it carries; with a token configured, full access is
\* granted only to a request that presents the full-access token, and a
\* request presenting only the read-only token or only a Cloudflare Access
\* header is read-only.
C32_AccessByToken ==
  /\ (last.op = "/mcp" /\ last.config.authToken = "" /\ last.config.readonlyToken = "") =>
       last.granted = "full"
  /\ TokensDecide

----------------------------------------------------------------------------
(* Access level of the dashboard's mutating endpoints *)

MutatingEndpoints ==
  {"PUT /api/routing", "DELETE /api/routing", "POST /api/routing/reorder",
   "PUT /api/contexts/:name"}

\* C33: a mutating dashboard endpoint called with an access level other
\* than 'full' answers 403 and leaves sources, contexts and rules as they
\* were; only a request with full access gets another answer.
C33_MutationsNeedFullAccess ==
  [][(last'.op \in MutatingEndpoints /\ last' # last) =>
       IF last'.access # "full"
         THEN last'.status = "403" /\ db' = db
         ELSE last'.status # "403"]_vars

C33_Witness ==
  /\ last.op = "PUT /api/contexts/:name"
  /\ last.access = "readonly"
  /\ last.status = "403"
  /\ db = last.pre
  /\ db # RoutingInitDb

----------------------------------------------------------------------------
(* HTTP sessions *)

SessionMethods == {"POST", "GET", "DELETE"}

EndedIds(h) == {e[1] : e \in h.ended}

\* C34: a session id enters the map only when it is initialized, and never
\* a second time; it leaves the map only by DELETE, by the close of its
\* transport or by the sweep when it is older than 30 minutes; a POST, GET
\* or DELETE carrying an id that is not in the map is answered 404 and
\* leaves the map as it is, so every request with an id that was deleted
\* or has expired is answered 404.
C34_SessionLifecycle ==
  [][/\ \A id \in DOMAIN reg'.sessions \ DOMAIN reg.sessions :
          /\ last'.op = "initialize" /\ last'.id = id
          /\ id > reg.issued
          /\ id \notin EndedIds(reg)
     /\ \A id \in DOMAIN reg.sessions \ DOMAIN reg'.sessions :
          \/ last'.op \in {"DELETE", "close"} /\ last'.id = id
          \/ last'.op = "sweep" /\ reg.clock - reg.sessions[id] > SESSION_TTL
     /\ (/\ last'.op \in SessionMethods
         /\ last'.id # NoSessionId
         /\ last'.id \notin DOMAIN reg.sessions) =>
          last'.status = "404" /\ reg'.sessions = reg.sessions
     /\ (last'.op \in SessionMethods /\ last'.id \in EndedIds(reg)) =>
          last'.status = "404"]_vars

C34_Witness ==
  /\ last.op = "GET"
  /\ last.status = "404"
  /\ <<last.id, "sweep">> \in reg.ended
  /\ \E id \in SessionIds : id # last.id /\ <<id, "DELETE">> \in reg.ended

----------------------------------------------------------------------------
(* OAuth state *)

\* how often exchangeCodeForToken was called for the state
Exchanges(h, s) == Cardinality({i \in DOMAIN h.exchanged : h.exchanged[i] = s})

\* C35: a callback goes on to the token exchange only with a state that
\* /auth/linear issued and that no callback has consumed and no sweep has
\* removed; no state is exchanged for twice; a callback with a state that
\* was consumed is answered 400.
C35_StateSingleUse ==
  [][last'.op = "callback" =>
       /\ reg'.exchanged # reg.exchanged =>
            /\ last'.id \subseteq 1..reg.issued
            /\ last'.id \cap (reg.consumed \cup reg.swept) = {}
            /\ last'.id \subseteq DOMAIN reg.oauthStates
       /\ \A s \in 1..MaxStates : Exchanges(reg', s) <= 1
       /\ (last'.id # {} /\ last'.id \subseteq reg.consumed) => last'.status = "400"
       /\ last'.status # "400" => reg'.exchanged # reg.exchanged]_vars

C35_Witness ==
  /\ last.op = "callback"
  /\ last.status = "400"
  /\ last.id # {}
  /\ \A s \in last.id : Exchanges(reg, s) = 1
  /\ reg.swept # {}

----------------------------------------------------------------------------
(* Context records *)

\* every context that has a rule has a record in the contexts table
RulesHaveContexts(d) == ContextsOf(d.source_rules) \subseteq ContextNames(d)

\* C36: once the startup migration sequence of the current release has
\* returned on a store, whatever wrote the store before, every context
\* with a rule has a context record, and set-rule, delete and reorder keep
\* it so.
C36_RulesHaveContextRecords ==
  (release = "new" /\ handle = "complete") => RulesHaveContexts(db)

----------------------------------------------------------------------------
(* Callers of ensureInitialized *)

\* C37: when createServer goes on from ensureInitialized to registerOnServer
\* for a session with full access, the initialization attempt of every
\* enabled adapter has finished, also when the call arrived while another
\* call's initialization was in flight.
C37_ReturnsAfterAttempts ==
  [][(/\ reg'.session # reg.session
      /\ reg'.session.built
      /\ ~reg'.session.readOnly) =>
       \A a \in Enabled(reg') : reg'.pc[a] \in {"completed", "threw"}]_vars

----------------------------------------------------------------------------
(* Restarts *)

\* C38: after a restart (the startup migration sequence, then the adapter
\* synchronisation with the same enabled adapters) any two rules of a
\* context that are in the store before and after are in the same order.
C38_OrderSurvivesRestart ==
  (last.op = "restart" /\ last.status = "ok") =>
    \A r1, r2 \in last.pre.source_rules :
      (/\ r1.context = r2.context
       /\ RuleAt(db, r1.context, r1.source_id) # {}
       /\ RuleAt(db, r2.context, r2.source_id) # {}
       /\ r1.priority < r2.priority) =>
        PriorityOf(db, r1.context, r1.source_id) < PriorityOf(db, r2.context, r2.source_id)
----------------------------------------------------------------------------
(* Linear token refresh *)

\* C39: the stored token is removed only by revoke, by clear, or by the
\* failed refresh of a call; a token that the successful refresh of one
\* call has stored is not deleted by the failed refresh of a call that
\* had read the row before that token was stored.
C39_RefreshKeepsNewToken ==
  [][(reg.row # NoRow /\ reg'.row = NoRow) =>
       \/ last'.op \in {"revoke", "clear"}
       \/ /\ last'.op = "refresh failed"
          /\ ~(/\ reg.row.by \in Callers
               /\ reg.row.gen > reg.calls[last'.caller].row.gen)]_vars
====
